---- MODULE Spec2Model ----
(***************************************************************************)
(* A model of BluetoothManager (src/BLE_Scanner_Embedded.py): the single   *)
(* BLE session, its pairing registry, the shutdown sweep and the           *)
(* notification / polling engine.                                          *)
(*                                                                         *)
(* Every public method starts a daemon thread that runs a coroutine on an  *)
(* event loop of its own.  A thread is modelled as a record with a program *)
(* counter; one action is the code of a thread between two transport       *)
(* calls or sleeps (its suspension points).  The outcome of a transport    *)
(* call is a nondeterministic choice made by the action that resumes the   *)
(* thread.  The variable callbacks holds the calls the last step made on   *)
(* callback_manager, in order: "exactly one event per operation" is a      *)
(* statement about the steps of the operation's thread.                    *)
(***************************************************************************)
EXTENDS Naturals, Integers, Sequences, FiniteSets, Bags, TLC

\* ------------------------------------------------------------ bounds
MaxHandles == 2     \* BleakClient objects _connect_simple creates
MaxThreads == 2     \* threads of the bag alive at a time
MaxSessions == 1    \* connect calls of a run that also pairs
MaxChars == 3       \* characteristics of the connected peripheral
MaxQueue == 2       \* messages waiting in the notification queue
MaxSerial == 3      \* serial numbers of the messages under way
MaxLen == 4         \* bytes of a payload

\* ------------------------------------------------------------ domains
Addr    == {"A", "B"}
None    == 0           \* Python's None, where a handle or a characteristic can be
NoAddr  == "None"      \* Python's None, where an address can be
Handles == 1..MaxHandles
Chars   == 1..MaxChars
Outcome == {"ok", "raise"}

VARIABLES
    (* BluetoothManager attributes *)
    devices,            \* address -> name of the discovered devices
    discovered,         \* what the last discover call that returned found
    client,             \* the current BleakClient (a handle) or None
    connected,
    paired,
    paired_devices,
    scanning,
    notification_active,
    selected_characteristic,
    notification_queue, \* self._notification_queue
    (* the BleakClient objects of _connect_simple, with their threads *)
    handles,
    (* the transport's side *)
    bond,               \* address -> "never", "bonded", or "released" (bonded, then unpaired)
    (* threads *)
    threads,            \* the bag of the live threads but those of connect and of the sweep
    sweep,              \* the cleanup_all thread of cleanup()
    shutdown,           \* "running", "cleanup", "returned", "closed"
    (* what the last step did *)
    awaited,            \* how the transport call it resumed from ended, or "none"
    callbacks           \* its calls on callback_manager, in order

vars == <<devices, discovered, client, connected, paired, paired_devices, scanning,
          notification_active, selected_characteristic, notification_queue,
          handles, bond,
          threads, sweep, shutdown, awaited, callbacks>>

\* The GUI thread can call the API: the process is alive and the main thread
\* is not inside the time.sleep of cleanup().
MainThreadFree == shutdown \in {"running", "returned"}

\* Daemon threads run until the process ends.
Alive == shutdown # "closed"

\* ------------------------------------------------------------ records
NoHandle == [addr |-> NoAddr, pc |-> "unused", up |-> FALSE]
NoThread == [kind |-> "none", pc |-> "none", h |-> None, c |-> None, m |-> None,
             told |-> FALSE]
NoSweep  == [pc |-> "none", snap |-> <<>>, i |-> 1, ok |-> 0, count |-> 0,
             raised |-> {}, touched |-> FALSE]

Spawned(k) == [NoThread EXCEPT !.kind = k, !.pc = "spawned"]
Awaiting(k, h) == [NoThread EXCEPT !.kind = k, !.pc = "awaiting", !.h = h]

\* A thread is started: threading.Thread(...).start().
Start(r) ==
    /\ BagCardinality(threads) < MaxThreads
    /\ threads' = threads (+) SetToBag({r})

\* Thread r goes on as record x, or ends (x = NoThread); it stays a thread
\* that stop_notifications was called on.
Continue(r, x) ==
    threads' = IF x = NoThread
               THEN threads (-) SetToBag({r})
               ELSE (threads (-) SetToBag({r})) (+) SetToBag({[x EXCEPT !.told = r.told]})

\* The handle the next BleakClient(device_address) is.
UnusedHandle ==
    IF \E h \in Handles : handles[h].pc = "unused"
    THEN {CHOOSE h \in Handles : /\ handles[h].pc = "unused"
                                 /\ \A g \in Handles : handles[g].pc = "unused" => h <= g}
    ELSE {}

\* self.client.address
ClientAddress == IF client = None THEN NoAddr ELSE handles[client].addr

\* The transport's unpair went through on address a.
Released(a) == [bond EXCEPT ![a] = IF bond[a] = "never" THEN "never" ELSE "released"]

\* The addresses the transport holds a bond for.
Bonded == {a \in Addr : bond[a] = "bonded"}

\* The number of times callback e is in the sequence cb.
Count(cb, e) == Cardinality({i \in DOMAIN cb : cb[i] = e})

\* The number of live threads of kind k in the bag b.
Live(b, k) == BagCardinality([r \in {x \in BagToSet(b) : x.kind = k} |-> b[r]])

\* The number of live threads of kind k at one of the pcs in the bag b.
LiveAt(b, k, pcs) ==
    BagCardinality([r \in {x \in BagToSet(b) : x.kind = k /\ x.pc \in pcs} |-> b[r]])

\* ------------------------------------------------------------ connect
\* ConnectUnknown starting the connection all the same.
ConnectUnknown_Starts(a) ==
    /\ \E h \in UnusedHandle :
          handles' = [handles EXCEPT ![h] = [NoHandle EXCEPT !.addr = a, !.pc = "spawned"]]
    /\ callbacks' = <<"error", "connection_started">>

\* connect_to_device with an address that is not a key of self.devices:
\* lines 195-197.
ConnectUnknown(a) ==
    /\ handles' = handles
    /\ callbacks' = <<"error">>

\* connect_to_device.
connect_to_device(a) ==
    /\ awaited' = "none"
    /\ MainThreadFree
    /\ IF a \in DOMAIN devices
       THEN /\ \E h \in UnusedHandle :
                  handles' = [handles EXCEPT ![h] = [NoHandle EXCEPT !.addr = a, !.pc = "spawned"]]
            /\ callbacks' = <<"connection_started">>
       ELSE ConnectUnknown(a)
    /\ UNCHANGED <<devices, discovered, notification_queue, client, connected,
                   paired, paired_devices, scanning, notification_active,
                   selected_characteristic, bond, threads, sweep, shutdown>>

\* _connect_simple up to the await: self.client = BleakClient(device_address).
connect_simple_start(h) ==
    /\ awaited' = "none"
    /\ Alive
    /\ handles[h].pc = "spawned"
    /\ client' = h
    /\ handles' = [handles EXCEPT ![h].pc = "connecting"]
    /\ callbacks' = <<>>
    /\ UNCHANGED <<devices, discovered, notification_queue, connected, paired,
                   paired_devices, scanning, notification_active,
                   selected_characteristic, bond, threads, sweep, shutdown>>

\* ServicesStep taking a failure for a failed connection.
ServicesStep_Reverts(svcOk) ==
    IF client # None /\ svcOk THEN "services_discovered" ELSE "connection_failed"

\* The inner try of _connect_simple: self.client.services.  The client may
\* have been set to None by a disconnect (AttributeError), or the property
\* may raise; both end in the message.
ServicesStep(svcOk) ==
    IF client # None /\ svcOk THEN "services_discovered" ELSE "message"

\* _connect_simple after the await of connect().
connect_simple_finish(h, res, svcOk) ==
    /\ awaited' = res
    /\ Alive
    /\ handles[h].pc = "connecting"
    /\ IF res = "ok"
       THEN /\ connected' = TRUE
            /\ handles' = [handles EXCEPT ![h].pc = "done", ![h].up = TRUE]
            /\ callbacks' = IF handles[h].addr \in DOMAIN devices
                            THEN <<"connected", ServicesStep(svcOk)>>
                            ELSE \* self.devices[device_address] raises KeyError
                                 <<"connection_failed">>
       ELSE /\ connected' = connected
            /\ handles' = [handles EXCEPT ![h].pc = "done"]
            /\ callbacks' = <<"connection_failed">>
    /\ UNCHANGED <<devices, discovered, notification_queue, client, paired,
                   paired_devices, scanning, notification_active,
                   selected_characteristic, bond, threads, sweep, shutdown>>

\* ------------------------------------------------------------ disconnect
\* DisconnectRefused starting the disconnect thread all the same.
DisconnectRefused_Starts ==
    /\ notification_active' = FALSE
    /\ Start(Spawned("disconnect"))
    /\ callbacks' = <<>>

\* disconnect_from_device with no client: the else branch, line 249.
DisconnectRefused ==
    /\ UNCHANGED <<notification_active, threads>>
    /\ callbacks' = <<"error: No device connected to disconnect from">>

\* disconnect_from_device.
disconnect_from_device ==
    /\ awaited' = "none"
    /\ MainThreadFree
    /\ IF client # None
       THEN /\ notification_active' = FALSE
            /\ Start(Spawned("disconnect"))
            /\ callbacks' = <<>>
       ELSE DisconnectRefused
    /\ UNCHANGED <<devices, discovered, notification_queue, client, connected,
                   paired, paired_devices, scanning, selected_characteristic,
                   handles, bond, sweep, shutdown>>

\* _disconnect_simple up to the await: "if self.client:"; with no client the
\* try block does nothing and the finally clause reports.
disconnect_simple_start(r) ==
    /\ awaited' = "none"
    /\ Alive
    /\ r = Spawned("disconnect")
    /\ IF client = None
       THEN /\ Continue(r, NoThread)
            /\ callbacks' = <<"disconnected">>
       ELSE /\ Continue(r, Awaiting("disconnect", client))
            /\ callbacks' = <<>>
    /\ UNCHANGED <<devices, discovered, notification_queue, client, connected,
                   paired, paired_devices, scanning, notification_active,
                   selected_characteristic, handles, bond, sweep, shutdown>>

\* DisconnectRaised without the finally clause.
DisconnectRaised_NoFinally(r) ==
    /\ callbacks' = <<"error">>
    /\ UNCHANGED <<client, connected, paired, paired_devices,
                   selected_characteristic, handles>>

\* The transport disconnect raised: the except and finally clauses.
DisconnectRaised(r) ==
    /\ callbacks' = <<"error", "disconnected">>
    /\ UNCHANGED <<client, connected, paired, paired_devices,
                   selected_characteristic, handles>>

\* DisconnectReturned discarding the address of the session from
\* paired_devices, as unpair does.
DisconnectReturned_Forgets(r) ==
    /\ client' = None
    /\ connected' = FALSE
    /\ paired' = FALSE
    /\ paired_devices' = paired_devices \ {handles[r.h].addr}
    /\ selected_characteristic' = None
    /\ handles' = [handles EXCEPT ![r.h].up = FALSE]
    /\ callbacks' = <<"disconnected">>

\* The transport disconnect returned: lines 261-264, then the finally clause;
\* paired_devices is not among the fields reset.
DisconnectReturned(r) ==
    /\ client' = None
    /\ connected' = FALSE
    /\ paired' = FALSE
    /\ selected_characteristic' = None
    /\ handles' = [handles EXCEPT ![r.h].up = FALSE]
    /\ callbacks' = <<"disconnected">>
    /\ UNCHANGED paired_devices

\* _disconnect_simple after the await of disconnect().
disconnect_simple_finish(r, res) ==
    /\ awaited' = res
    /\ Alive
    /\ r.kind = "disconnect" /\ r.pc = "awaiting"
    /\ IF res = "ok" THEN DisconnectReturned(r) ELSE DisconnectRaised(r)
    /\ Continue(r, NoThread)
    /\ UNCHANGED <<devices, discovered, notification_queue, scanning,
                   notification_active, bond, sweep, shutdown>>

\* ------------------------------------------------------------ pair
\* pair_device.
pair_device ==
    /\ awaited' = "none"
    /\ MainThreadFree
    /\ IF client # None
       THEN /\ Start(Spawned("pair"))
            /\ callbacks' = <<"pairing_started">>
       ELSE /\ threads' = threads
            /\ callbacks' = <<"error">>
    /\ UNCHANGED <<devices, discovered, notification_queue, client, connected,
                   paired, paired_devices, scanning, notification_active,
                   selected_characteristic, handles, bond, sweep, shutdown>>

\* pair_async up to the await: self.client.pair() on the client of that
\* moment; with no client the attribute access raises and is reported.
pair_async_start(r) ==
    /\ awaited' = "none"
    /\ Alive
    /\ r = Spawned("pair")
    /\ IF client = None
       THEN /\ Continue(r, NoThread)
            /\ callbacks' = <<"pairing_failed">>
       ELSE /\ Continue(r, Awaiting("pair", client))
            /\ callbacks' = <<>>
    /\ UNCHANGED <<devices, discovered, notification_queue, client, connected,
                   paired, paired_devices, scanning, notification_active,
                   selected_characteristic, handles, bond, sweep, shutdown>>

\* The sweep has taken its snapshot.
Sweeping == sweep.pc \notin {"none", "spawned"}

\* A pair or unpair thread changed the registry after the sweep's snapshot.
Touch(changed) ==
    IF Sweeping /\ changed THEN [sweep EXCEPT !.touched = TRUE] ELSE sweep

\* pair_async, the transport pair call raised: lines 302-304.
PairRaised(r) ==
    /\ callbacks' = <<"pairing_failed">>
    /\ UNCHANGED <<paired, paired_devices, bond, sweep>>

\* pair_async, the transport pair call returned: lines 294-300.  The address
\* is read from self.client as it is now; with no client left the attribute
\* access raises after self.paired was set, and the failure is reported.
PairReturned(r) ==
    /\ bond' = [bond EXCEPT ![handles[r.h].addr] = "bonded"]
    /\ paired' = TRUE
    /\ IF client = None
       THEN /\ paired_devices' = paired_devices
            /\ callbacks' = <<"pairing_failed">>
       ELSE /\ paired_devices' = paired_devices \cup {ClientAddress}
            /\ callbacks' = <<"paired_successfully">>
    /\ sweep' = Touch(paired_devices' # paired_devices)

pair_async_finish(r, res) ==
    /\ awaited' = res
    /\ Alive
    /\ r.kind = "pair" /\ r.pc = "awaiting"
    /\ IF res = "ok" THEN PairReturned(r) ELSE PairRaised(r)
    /\ Continue(r, NoThread)
    /\ UNCHANGED <<devices, discovered, notification_queue, client, connected,
                   scanning, notification_active, selected_characteristic,
                   handles, shutdown>>

\* ------------------------------------------------------------ unpair
\* unpair_device.
unpair_device ==
    /\ awaited' = "none"
    /\ MainThreadFree
    /\ IF client # None
       THEN /\ Start(Spawned("unpair"))
            /\ callbacks' = <<"unpairing_started">>
       ELSE /\ threads' = threads
            /\ callbacks' = <<"error">>
    /\ UNCHANGED <<devices, discovered, notification_queue, client, connected,
                   paired, paired_devices, scanning, notification_active,
                   selected_characteristic, handles, bond, sweep, shutdown>>

\* unpair up to the await.
unpair_start(r) ==
    /\ awaited' = "none"
    /\ Alive
    /\ r = Spawned("unpair")
    /\ IF client = None
       THEN /\ Continue(r, NoThread)
            /\ callbacks' = <<"unpairing_failed">>
       ELSE /\ Continue(r, Awaiting("unpair", client))
            /\ callbacks' = <<>>
    /\ UNCHANGED <<devices, discovered, notification_queue, client, connected,
                   paired, paired_devices, scanning, notification_active,
                   selected_characteristic, handles, bond, sweep, shutdown>>

\* UnpairRaised taking the unpairing for done.
UnpairRaised_AssumesUnpaired(r) ==
    /\ callbacks' = <<"unpairing_failed">>
    /\ paired' = FALSE
    /\ UNCHANGED <<paired_devices, bond, sweep>>

\* unpair, the transport unpair call raised: lines 335-337.
UnpairRaised(r) ==
    /\ callbacks' = <<"unpairing_failed">>
    /\ UNCHANGED <<paired, paired_devices, bond, sweep>>

\* UnpairReturned without the removal from the registry.
UnpairReturned_KeepsTracked(r) ==
    /\ bond' = Released(handles[r.h].addr)
    /\ paired' = FALSE
    /\ paired_devices' = paired_devices
    /\ callbacks' = IF client = None THEN <<"unpairing_failed">>
                    ELSE <<"unpaired_successfully">>
    /\ sweep' = sweep

\* unpair, the transport unpair call returned: lines 327-333.
UnpairReturned(r) ==
    /\ bond' = Released(handles[r.h].addr)
    /\ paired' = FALSE
    /\ IF client = None
       THEN /\ paired_devices' = paired_devices
            /\ callbacks' = <<"unpairing_failed">>
       ELSE /\ paired_devices' = paired_devices \ {ClientAddress}
            /\ callbacks' = <<"unpaired_successfully">>
    /\ sweep' = Touch(paired_devices' # paired_devices)

unpair_finish(r, res) ==
    /\ awaited' = res
    /\ Alive
    /\ r.kind = "unpair" /\ r.pc = "awaiting"
    /\ IF res = "ok" THEN UnpairReturned(r) ELSE UnpairRaised(r)
    /\ Continue(r, NoThread)
    /\ UNCHANGED <<devices, discovered, notification_queue, client, connected,
                   scanning, notification_active, selected_characteristic,
                   handles, shutdown>>

\* ------------------------------------------------------------ scan
\* device.name of a sighting: None, or a string.
AdvNames == {NoAddr, "name", "renamed"}

\* The results of a BleakScanner.discover call: devices of distinct
\* addresses, each with the name it advertises.
Found == UNION {[S -> AdvNames] : S \in SUBSET Addr}

\* self.devices after self.devices.clear().
NoDevices == [a \in {} |-> "name"]

\* device.name or "Unknown"
DeviceName(n) == IF n = NoAddr THEN "Unknown" ELSE n

\* A scan thread carries two marks for the statements on it: h is set when
\* stop_scan is called while its loop runs, c when start_scan is called
\* after that while it still awaits a discover call (a pass begun in an
\* earlier session).
Mark == 1
ToldToStop(r) ==
    IF r.kind = "scan" /\ r.pc \in {"discovering", "sleeping"}
    THEN [r EXCEPT !.h = Mark] ELSE r
StalePass(r) ==
    IF r.kind = "scan" /\ r.pc = "discovering" /\ r.h = Mark
    THEN [r EXCEPT !.c = Mark] ELSE r

\* start_scan.
start_scan ==
    /\ awaited' = "none"
    /\ MainThreadFree
    /\ scanning' = TRUE
    /\ devices' = NoDevices
    /\ callbacks' = <<"scan_started">>
    /\ BagCardinality(threads) < MaxThreads
    /\ threads' = BagOfAll(StalePass, threads) (+) SetToBag({Spawned("scan")})
    /\ UNCHANGED <<discovered, notification_queue, client, connected, paired,
                   paired_devices, notification_active,
                   selected_characteristic, handles, bond, sweep, shutdown>>

\* stop_scan.
stop_scan ==
    /\ awaited' = "none"
    /\ MainThreadFree
    /\ scanning' = FALSE
    /\ callbacks' = <<"scan_stopped">>
    /\ threads' = BagOfAll(ToldToStop, threads)
    /\ UNCHANGED <<devices, discovered, notification_queue, client, connected,
                   paired, paired_devices, notification_active,
                   selected_characteristic, handles, bond, sweep, shutdown>>

\* "while self.scanning:" of _scan_devices_simple: the next discover call is
\* made, or the thread ends.
ScanLoop(r) ==
    IF scanning THEN [r EXCEPT !.pc = "discovering", !.c = None] ELSE NoThread

\* _scan_devices_simple up to the first await.
scan_devices_start(r) ==
    /\ awaited' = "none"
    /\ Alive
    /\ r.kind = "scan" /\ r.pc = "spawned"
    /\ Continue(r, ScanLoop(r))
    /\ callbacks' = <<>>
    /\ UNCHANGED <<devices, discovered, notification_queue, client, connected,
                   paired, paired_devices, scanning, notification_active,
                   selected_characteristic, handles, bond, sweep, shutdown>>

\* ScanReturned taking the name of the latest sighting.
ScanReturned_Updates(r, found) ==
    /\ discovered' = found
    /\ devices' = [a \in DOMAIN devices \cup DOMAIN found |->
                     IF a \in DOMAIN found THEN DeviceName(found[a]) ELSE devices[a]]
    /\ callbacks' = [i \in 1..Cardinality(DOMAIN found \ DOMAIN devices) |-> "devices_updated"]
    /\ Continue(r, IF scanning THEN [r EXCEPT !.pc = "sleeping", !.c = None] ELSE NoThread)

\* ScanReturned reporting every device of the result.
ScanReturned_ReportsAll(r, found) ==
    /\ discovered' = found
    /\ devices' = [a \in DOMAIN devices \cup DOMAIN found |->
                     IF a \in DOMAIN devices THEN devices[a] ELSE DeviceName(found[a])]
    /\ callbacks' = [i \in 1..Cardinality(DOMAIN found) |-> "devices_updated"]
    /\ Continue(r, IF scanning THEN [r EXCEPT !.pc = "sleeping", !.c = None] ELSE NoThread)

\* The discover call returned: the for loop of lines 166-175, which stores
\* and reports the devices whose address is not a key yet, then the sleep if
\* still scanning, or else the test of the while loop, which ends the thread.
ScanReturned(r, found) ==
    /\ discovered' = found
    /\ devices' = [a \in DOMAIN devices \cup DOMAIN found |->
                     IF a \in DOMAIN devices THEN devices[a] ELSE DeviceName(found[a])]
    /\ callbacks' = [i \in 1..Cardinality(DOMAIN found \ DOMAIN devices) |-> "devices_updated"]
    /\ Continue(r, IF scanning THEN [r EXCEPT !.pc = "sleeping", !.c = None] ELSE NoThread)

\* ScanRaised going on with the loop.
ScanRaised_Retries(r) ==
    /\ UNCHANGED <<devices, discovered>>
    /\ callbacks' = <<"error">>
    /\ Continue(r, IF scanning THEN [r EXCEPT !.pc = "sleeping", !.c = None] ELSE NoThread)

\* The discover call raised: the except clause, lines 181-184.
ScanRaised(r) ==
    /\ UNCHANGED <<devices, discovered>>
    /\ callbacks' = <<"error">>
    /\ Continue(r, NoThread)

\* _scan_devices_simple after the await of BleakScanner.discover.
scan_devices_discovered(r, res, found) ==
    /\ awaited' = res
    /\ Alive
    /\ r.kind = "scan" /\ r.pc = "discovering"
    /\ IF res = "ok" THEN ScanReturned(r, found) ELSE ScanRaised(r)
    /\ UNCHANGED <<notification_queue, client, connected, paired,
                   paired_devices, scanning, notification_active,
                   selected_characteristic, handles, bond, sweep, shutdown>>

\* _scan_devices_simple after asyncio.sleep(SCAN_INTERVAL).
scan_devices_wakes(r) ==
    /\ awaited' = "none"
    /\ Alive
    /\ r.kind = "scan" /\ r.pc = "sleeping"
    /\ Continue(r, ScanLoop(r))
    /\ callbacks' = <<>>
    /\ UNCHANGED <<devices, discovered, notification_queue, client, connected,
                   paired, paired_devices, scanning, notification_active,
                   selected_characteristic, handles, bond, sweep, shutdown>>

\* ------------------------------------------------------------ notifications
\* A thread of kind k at pc, working on characteristic c through handle h.
Thread(k, pc, h, c) == [NoThread EXCEPT !.kind = k, !.pc = pc, !.h = h, !.c = c]

\* StartRefused taking the characteristic before it returns.
StartRefused_Selects(c) ==
    /\ callbacks' = <<"error">>
    /\ selected_characteristic' = c
    /\ notification_active' = TRUE
    /\ UNCHANGED threads

\* start_notifications with no characteristic, no client or a client that
\* is not connected: lines 574-580.
StartRefused(c) ==
    /\ callbacks' = <<"error">>
    /\ UNCHANGED <<selected_characteristic, notification_active, threads>>

\* start_notifications.
start_notifications(c) ==
    /\ awaited' = "none"
    /\ MainThreadFree
    /\ IF c = None \/ client = None \/ ~connected
       THEN StartRefused(c)
       ELSE /\ selected_characteristic' = c
            /\ notification_active' = TRUE
            /\ callbacks' = <<"notifications_starting">>
            /\ Start(Thread("notify", "spawned", None, c))
    /\ UNCHANGED <<devices, discovered, notification_queue, client, connected,
                   paired, paired_devices, scanning, handles, bond, sweep,
                   shutdown>>

\* The pcs of a thread inside the loop of poll_thread.
PollPcs == {"sleeping", "reading"}

\* A thread carries the mark told, which the code does not have, when
\* stop_notifications was called while it was in its delivery loop.
Stopped(r) ==
    IF \/ r.kind = "notify" /\ r.pc \in {"draining", "popping", "delivering"}
       \/ r.kind = "poll" /\ r.pc \in PollPcs
    THEN [r EXCEPT !.told = TRUE] ELSE r

\* stop_notifications.
stop_notifications ==
    /\ awaited' = "none"
    /\ MainThreadFree
    /\ notification_active' = FALSE
    /\ callbacks' = <<"notifications_stopped">>
    /\ threads' = BagOfAll(Stopped, threads)
    /\ UNCHANGED <<devices, discovered, notification_queue, client, connected,
                   paired, paired_devices, scanning, selected_characteristic,
                   handles, bond, sweep, shutdown>>

\* "while self.notification_active and self.connected", of both loops.
LoopGoesOn == notification_active /\ connected

\* The thread poll_thread is at the head of its while loop.
PollLoop(r) ==
    IF LoopGoesOn THEN Thread("poll", "sleeping", None, r.c) ELSE NoThread

\* SubscribeRaised reporting the failure by on_error.
SubscribeRaised_AsError(r) ==
    /\ callbacks' = <<"error", "notifications_started_polling",
                      "data_received: Polling started">>
    /\ Continue(r, PollLoop(r))

\* The except clause of try_notifications, with _start_polling_fallback up
\* to the first test of the loop of its thread: lines 643-647 and 678-687.
SubscribeRaised(r) ==
    /\ callbacks' = <<"message", "notifications_started_polling",
                      "data_received: Polling started">>
    /\ Continue(r, PollLoop(r))

\* try_notifications up to the await of start_notify: the queue, then
\* self.client.start_notify, an AttributeError with no client.
try_notifications_start(r) ==
    /\ awaited' = "none"
    /\ Alive
    /\ r.kind = "notify" /\ r.pc = "spawned"
    /\ notification_queue' = <<>>
    /\ IF client = None
       THEN SubscribeRaised(r)
       ELSE /\ Continue(r, Thread("notify", "subscribing", client, r.c))
            /\ callbacks' = <<>>
    /\ UNCHANGED <<devices, discovered, client, connected, paired,
                   paired_devices, scanning, notification_active,
                   selected_characteristic, handles, bond, sweep, shutdown>>

\* The pcs of a thread inside the drain loop of try_notifications: asleep,
\* between the test of the queue and pop(0), and between pop(0) and
\* on_data_received.  The thread runs beside the other threads, which can
\* act between any two of its statements that touch the queue.
DrainPcs == {"draining", "popping", "delivering"}

\* The head of the drain loop, lines 628-630: the while test, then the test
\* of the queue; the loop is left for stop_notify, which an absent client
\* ends at once (the bare except).
DrainHead(r, before) ==
    /\ callbacks' = before
    /\ Continue(r, IF LoopGoesOn
                   THEN Thread("notify",
                               IF notification_queue # <<>> THEN "popping" ELSE "draining",
                               r.h, r.c)
                   ELSE IF client = None THEN NoThread
                   ELSE Thread("notify", "unsubscribing", client, r.c))

\* try_notifications after the await of start_notify.
try_notifications_subscribed(r, res) ==
    /\ awaited' = res
    /\ Alive
    /\ r.kind = "notify" /\ r.pc = "subscribing"
    /\ IF res = "ok"
       THEN DrainHead(r, <<"notifications_started_real">>)
       ELSE SubscribeRaised(r)
    /\ UNCHANGED <<devices, discovered, notification_queue, client, connected,
                   paired, paired_devices, scanning, notification_active,
                   selected_characteristic, handles, bond, sweep, shutdown>>

\* try_notifications after asyncio.sleep(NOTIFICATION_CHECK_INTERVAL).
try_notifications_wakes(r) ==
    /\ awaited' = "none"
    /\ Alive
    /\ r.kind = "notify" /\ r.pc = "draining"
    /\ DrainHead(r, <<>>)
    /\ UNCHANGED <<devices, discovered, notification_queue, client, connected,
                   paired, paired_devices, scanning, notification_active,
                   selected_characteristic, handles, bond, sweep, shutdown>>

\* pop(0) of line 631 on a queue that holds a message.
Pops(r) ==
    /\ notification_queue' = Tail(notification_queue)
    /\ Continue(r, [Thread("notify", "delivering", r.h, r.c)
                        EXCEPT !.m = Head(notification_queue)])
    /\ callbacks' = <<>>

\* self._notification_queue.pop(0), line 631.  The queue that was seen to
\* hold a message may hold none by now, emptied by another drain loop or
\* replaced by the thread of a later start: pop raises IndexError, which the
\* except clause of line 643 takes for a failure of the notifications.
try_notifications_pops(r) ==
    /\ awaited' = "none"
    /\ Alive
    /\ r.kind = "notify" /\ r.pc = "popping"
    /\ IF notification_queue # <<>>
       THEN Pops(r)
       ELSE /\ SubscribeRaised(r)
            /\ notification_queue' = notification_queue
    /\ UNCHANGED <<devices, discovered, client, connected, paired,
                   paired_devices, scanning, notification_active,
                   selected_characteristic, handles, bond, sweep, shutdown>>

\* The data line of the message with serial number m.
DataLine(m) == "data_received: Notification " \o ToString(m)

\* on_data_received(message) of line 632, then the sleep of line 635.
try_notifications_delivers(r) ==
    /\ awaited' = "none"
    /\ Alive
    /\ r.kind = "notify" /\ r.pc = "delivering"
    /\ callbacks' = <<DataLine(r.m)>>
    /\ Continue(r, Thread("notify", "draining", r.h, r.c))
    /\ UNCHANGED <<devices, discovered, notification_queue, client, connected,
                   paired, paired_devices, scanning, notification_active,
                   selected_characteristic, handles, bond, sweep, shutdown>>

\* try_notifications after the await of stop_notify, whose failure is
\* ignored.
try_notifications_unsubscribed(r, res) ==
    /\ awaited' = res
    /\ Alive
    /\ r.kind = "notify" /\ r.pc = "unsubscribing"
    /\ Continue(r, NoThread)
    /\ callbacks' = <<>>
    /\ UNCHANGED <<devices, discovered, notification_queue, client, connected,
                   paired, paired_devices, scanning, notification_active,
                   selected_characteristic, handles, bond, sweep, shutdown>>

\* The messages under way: in the queue, or popped and not yet delivered.
UnderWay ==
    {notification_queue[i] : i \in DOMAIN notification_queue}
        \cup {r.m : r \in {x \in BagToSet(threads) : x.pc = "delivering"}}

\* The messages are told apart by a serial number, which stands for the
\* payload and the time of the message: the next one is above all those
\* under way.
NextSerial ==
    IF UnderWay = {} THEN 1
    ELSE 1 + CHOOSE n \in UnderWay : \A k \in UnderWay : k <= n

\* notification_handler, which the transport calls while a subscription of
\* a connected handle stands: the message is appended to the queue.
notification_handler(r) ==
    /\ awaited' = "none"
    /\ Alive
    /\ r.kind = "notify" /\ r.pc \in DrainPcs \cup {"unsubscribing"}
    /\ handles[r.h].up
    /\ Len(notification_queue) < MaxQueue
    /\ NextSerial <= MaxSerial
    /\ notification_queue' = Append(notification_queue, NextSerial)
    /\ callbacks' = <<>>
    /\ UNCHANGED <<devices, discovered, client, connected, paired,
                   paired_devices, scanning, notification_active,
                   selected_characteristic, handles, bond, threads, sweep,
                   shutdown>>

\* poll_thread after time.sleep(POLLING_INTERVAL): the test of line 693,
\* then poll_read up to the await of read_gatt_char; with no client poll_read
\* does nothing and the loop goes on.
poll_thread_wakes(r) ==
    /\ awaited' = "none"
    /\ Alive
    /\ r.kind = "poll" /\ r.pc = "sleeping"
    /\ Continue(r, IF ~LoopGoesOn THEN NoThread
                   ELSE IF client = None THEN PollLoop(r)
                   ELSE Thread("poll", "reading", client, r.c))
    /\ callbacks' = <<>>
    /\ UNCHANGED <<devices, discovered, notification_queue, client, connected,
                   paired, paired_devices, scanning, notification_active,
                   selected_characteristic, handles, bond, sweep, shutdown>>

\* PollReadRaised taking the failure for the "major error" of line 736:
\* reported, and the loop left.
PollReadRaised_Breaks(r) ==
    /\ callbacks' = <<"error">>
    /\ Continue(r, NoThread)

\* read_gatt_char raised: "except Exception: pass" of poll_read, lines
\* 720-723, then the while test of poll_thread.
PollReadRaised(r) ==
    /\ callbacks' = <<>>
    /\ Continue(r, PollLoop(r))

\* poll_read after the await of read_gatt_char: the value is delivered if
\* notifications are still active, a failure is passed over in silence; then
\* the while loop of poll_thread.
poll_read_finish(r, res) ==
    /\ awaited' = res
    /\ Alive
    /\ r.kind = "poll" /\ r.pc = "reading"
    /\ IF res = "ok"
       THEN /\ callbacks' = IF notification_active
                            THEN <<"data_received: Polled">> ELSE <<>>
            /\ Continue(r, PollLoop(r))
       ELSE PollReadRaised(r)
    /\ UNCHANGED <<devices, discovered, notification_queue, client, connected,
                   paired, paired_devices, scanning, notification_active,
                   selected_characteristic, handles, bond, sweep, shutdown>>

\* ------------------------------------------------------------ read, write
\* characteristic.properties, as the peripheral's GATT table gives them.
Properties(c) ==
    CASE c = 1 -> {"read", "write", "notify"}
      [] c = 2 -> {"read", "write-without-response", "notify"}
      [] OTHER -> {"write", "write-without-response"}

\* read_data with no characteristic, no client or a client that is not
\* connected: lines 496-502.
ReadRefused(c) ==
    /\ callbacks' = <<"error">>
    /\ UNCHANGED threads

\* read_data.
read_data(c) ==
    /\ awaited' = "none"
    /\ MainThreadFree
    /\ IF c = None \/ client = None \/ ~connected
       THEN ReadRefused(c)
       ELSE /\ callbacks' = <<"read_started">>
            /\ Start(Thread("read", "spawned", None, c))
    /\ UNCHANGED <<devices, discovered, notification_queue, client, connected,
                   paired, paired_devices, scanning, notification_active,
                   selected_characteristic, handles, bond, sweep, shutdown>>

\* read_thread up to the await of read_gatt_char: with no client left the
\* attribute access raises, which line 525 reports.
read_thread_start(r) ==
    /\ awaited' = "none"
    /\ Alive
    /\ r.kind = "read" /\ r.pc = "spawned"
    /\ IF client = None
       THEN /\ callbacks' = <<"error">>
            /\ Continue(r, NoThread)
       ELSE /\ callbacks' = <<>>
            /\ Continue(r, Thread("read", "reading", client, r.c))
    /\ UNCHANGED <<devices, discovered, notification_queue, client, connected,
                   paired, paired_devices, scanning, notification_active,
                   selected_characteristic, handles, bond, sweep, shutdown>>

\* ReadReturned passing over a failure in silence, as the polling loop does.
ReadReturned_Silent(r, res) ==
    /\ callbacks' = IF res = "ok" THEN <<"data_received: Read">> ELSE <<>>
    /\ Continue(r, NoThread)

\* The rest of read_thread, lines 511-527: the data line, or the error.
ReadReturned(r, res) ==
    /\ callbacks' = IF res = "ok" THEN <<"data_received: Read">> ELSE <<"error">>
    /\ Continue(r, NoThread)

\* read_thread after the await of read_gatt_char.
read_thread_finish(r, res) ==
    /\ awaited' = res
    /\ Alive
    /\ r.kind = "read" /\ r.pc = "reading"
    /\ ReadReturned(r, res)
    /\ UNCHANGED <<devices, discovered, notification_queue, client, connected,
                   paired, paired_devices, scanning, notification_active,
                   selected_characteristic, handles, bond, sweep, shutdown>>

\* send_data, whose events carry their text.
send_data(c, data_str) ==
    /\ MainThreadFree
    /\ IF c = None
       THEN /\ callbacks' = <<"error: No characteristic selected for sending data">>
            /\ UNCHANGED threads
       ELSE IF client = None \/ ~connected
       THEN /\ callbacks' = <<"error: No device connected for sending data">>
            /\ UNCHANGED threads
       ELSE /\ callbacks' = <<"send_started: " \o data_str>>
            /\ Start(Thread("write", "spawned", None, c))

\* What the user can leave in the entry, and str.strip() of it.
Texts == {"", " ", "hi"}
Strip(t) == IF t = " " THEN "" ELSE t

\* SendData passing the entry on as it is.
SendData_Unchecked(c, entry) ==
    IF c # None
    THEN send_data(c, entry)
    ELSE callbacks' = <<>> /\ UNCHANGED threads

\* The body of BLEGUIApp._send_data, lines 1120-1125: with a selected
\* characteristic and an entry that is not blank, send_data.
SendData(c, entry) ==
    IF c # None /\ Strip(entry) # ""
    THEN send_data(c, Strip(entry))
    ELSE callbacks' = <<>> /\ UNCHANGED threads

\* BLEGUIApp._send_data, the only caller of send_data.
_send_data(c, entry) ==
    /\ awaited' = "none"
    /\ MainThreadFree
    /\ SendData(c, entry)
    /\ UNCHANGED <<devices, discovered, notification_queue, client, connected,
                   paired, paired_devices, scanning, notification_active,
                   selected_characteristic, handles, bond, sweep, shutdown>>

\* WriteMode asking for a response whenever the characteristic takes one.
WriteMode_PrefersResponse(c) ==
    IF "write" \in Properties(c) THEN "write_with_response"
    ELSE "write_without_response"

\* The write_gatt_char call of write_data, lines 461-470.
WriteMode(c) ==
    IF "write-without-response" \in Properties(c) THEN "write_without_response"
    ELSE "write_with_response"

\* The pcs of a write thread that awaits write_gatt_char.
WritePcs == {"write_with_response", "write_without_response"}

\* write_thread up to the await of write_gatt_char: with no client left the
\* attribute access raises, which line 474 reports.
write_thread_start(r) ==
    /\ awaited' = "none"
    /\ Alive
    /\ r.kind = "write" /\ r.pc = "spawned"
    /\ IF client = None
       THEN /\ callbacks' = <<"error">>
            /\ Continue(r, NoThread)
       ELSE /\ callbacks' = <<>>
            /\ Continue(r, Thread("write", WriteMode(r.c), client, r.c))
    /\ UNCHANGED <<devices, discovered, notification_queue, client, connected,
                   paired, paired_devices, scanning, notification_active,
                   selected_characteristic, handles, bond, sweep, shutdown>>

\* write_thread after the await of write_gatt_char: lines 472-476.
write_thread_finish(r, res) ==
    /\ awaited' = res
    /\ Alive
    /\ r.kind = "write" /\ r.pc \in WritePcs
    /\ callbacks' = IF res = "ok" THEN <<"send_success">> ELSE <<"error">>
    /\ Continue(r, NoThread)
    /\ UNCHANGED <<devices, discovered, notification_queue, client, connected,
                   paired, paired_devices, scanning, notification_active,
                   selected_characteristic, handles, bond, sweep, shutdown>>

\* ------------------------------------------------------------ shutdown
\* list(self.paired_devices): the set's elements in some order.
Listings(S) ==
    {q \in [1..Cardinality(S) -> S] : \A i, j \in 1..Cardinality(S) : q[i] = q[j] => i = j}

\* The final status of cleanup_all: lines 403-410.
Summary(successful_unpairs, device_count) ==
    IF successful_unpairs = device_count THEN "msg_all_unpaired"
    ELSE IF successful_unpairs > 0 THEN "msg_partial"
    ELSE "msg_none_unpaired"

\* cleanup, which on_closing calls with a non-empty registry: the flags, then
\* cleanup_all_paired_devices (device_count, the message, the thread), then
\* the sleep of CLEANUP_TIMEOUT seconds.
cleanup ==
    /\ paired_devices # {}
    /\ scanning' = FALSE
    /\ notification_active' = FALSE
    /\ sweep' = [NoSweep EXCEPT !.pc = "spawned",
                                !.count = Cardinality(paired_devices)]
    /\ callbacks' = <<"msg_unpairing">>
    /\ shutdown' = "cleanup"

\* on_closing: the WM_DELETE_WINDOW handler.
on_closing ==
    /\ awaited' = "none"
    /\ shutdown = "running"
    /\ IF paired_devices # {}
       THEN cleanup
       ELSE /\ shutdown' = "closed"
            /\ callbacks' = <<>>
            /\ UNCHANGED <<scanning, notification_active, sweep>>
    /\ UNCHANGED <<devices, discovered, notification_queue, client, connected,
                   paired, paired_devices, selected_characteristic, handles,
                   bond, threads>>

\* cleanup_returns waiting for the thread of the sweep, as a join would.
cleanup_returns_Joins ==
    /\ awaited' = "none"
    /\ shutdown = "cleanup"
    /\ sweep.pc = "done"
    /\ shutdown' = "returned"
    /\ callbacks' = <<>>
    /\ UNCHANGED <<devices, discovered, notification_queue, client, connected,
                   paired, paired_devices, scanning, notification_active,
                   selected_characteristic, handles, bond, threads, sweep>>

\* time.sleep(CLEANUP_TIMEOUT) is over: cleanup returns, and on_closing
\* arms the timer of _force_close.
cleanup_returns ==
    /\ awaited' = "none"
    /\ shutdown = "cleanup"
    /\ shutdown' = "returned"
    /\ callbacks' = <<>>
    /\ UNCHANGED <<devices, discovered, notification_queue, client, connected,
                   paired, paired_devices, scanning, notification_active,
                   selected_characteristic, handles, bond, threads, sweep>>

\* _force_close: by the timer of on_closing, or at once by Control-q.
force_close ==
    /\ awaited' = "none"
    /\ MainThreadFree
    /\ shutdown' = "closed"
    /\ callbacks' = <<>>
    /\ UNCHANGED <<devices, discovered, notification_queue, client, connected,
                   paired, paired_devices, scanning, notification_active,
                   selected_characteristic, handles, bond, threads, sweep>>

\* The next address of the for loop of cleanup_all, or its end.
SweepNext(sw) ==
    [sw EXCEPT !.i = sw.i + 1,
               !.pc = IF sw.i + 1 > Len(sw.snap) THEN "done" ELSE "connect"]

\* The callbacks of a step of cleanup_all that ends the work on an address:
\* the message on the address and, after the last one, the final status.
SweepCallbacks(msg, sw) ==
    IF sw.pc = "done" THEN <<msg, Summary(sw.ok, sw.count)>> ELSE <<msg>>

\* SweepRaised leaving the for loop at the first failure.
SweepRaised_Breaks ==
    /\ sweep' = [sweep EXCEPT !.raised = sweep.raised \cup {sweep.snap[sweep.i]},
                              !.pc = "done"]
    /\ callbacks' = SweepCallbacks("msg_unpair_failed", sweep')

\* The except clause of the for loop: the address stays tracked.
SweepRaised ==
    /\ sweep' = SweepNext([sweep EXCEPT !.raised = sweep.raised \cup {sweep.snap[sweep.i]}])
    /\ callbacks' = SweepCallbacks("msg_unpair_failed", sweep')

\* The three awaits went through: lines 393-395.
SweepUnpaired ==
    /\ paired_devices' = paired_devices \ {sweep.snap[sweep.i]}
    /\ sweep' = SweepNext([sweep EXCEPT !.ok = sweep.ok + 1])
    /\ callbacks' = SweepCallbacks("msg_unpaired", sweep')

\* cleanup_all up to the first await: the snapshot.
cleanup_all_start(q) ==
    /\ awaited' = "none"
    /\ Alive
    /\ sweep.pc = "spawned"
    /\ q \in Listings(paired_devices)
    /\ IF Len(q) = 0
       THEN /\ sweep' = [sweep EXCEPT !.snap = q, !.pc = "done"]
            /\ callbacks' = <<Summary(0, sweep.count)>>
       ELSE /\ sweep' = [sweep EXCEPT !.snap = q, !.pc = "connect"]
            /\ callbacks' = <<>>
    /\ UNCHANGED <<devices, discovered, notification_queue, client, connected,
                   paired, paired_devices, scanning, notification_active,
                   selected_characteristic, handles, bond, threads, shutdown>>

\* await temp_client.connect()
cleanup_all_connect(res) ==
    /\ awaited' = res
    /\ Alive
    /\ sweep.pc = "connect"
    /\ IF res = "ok"
       THEN /\ sweep' = [sweep EXCEPT !.pc = "unpair"]
            /\ callbacks' = <<>>
       ELSE SweepRaised
    /\ UNCHANGED <<devices, discovered, notification_queue, client, connected,
                   paired, paired_devices, scanning, notification_active,
                   selected_characteristic, handles, bond, threads, shutdown>>

\* await temp_client.unpair()
cleanup_all_unpair(res) ==
    /\ awaited' = res
    /\ Alive
    /\ sweep.pc = "unpair"
    /\ IF res = "ok"
       THEN /\ bond' = Released(sweep.snap[sweep.i])
            /\ sweep' = [sweep EXCEPT !.pc = "disconnect"]
            /\ callbacks' = <<>>
       ELSE /\ bond' = bond
            /\ SweepRaised
    /\ UNCHANGED <<devices, discovered, notification_queue, client, connected,
                   paired, paired_devices, scanning, notification_active,
                   selected_characteristic, handles, threads, shutdown>>

\* await temp_client.disconnect()
cleanup_all_disconnect(res) ==
    /\ awaited' = res
    /\ Alive
    /\ sweep.pc = "disconnect"
    /\ IF res = "ok"
       THEN SweepUnpaired
       ELSE /\ paired_devices' = paired_devices
            /\ SweepRaised
    /\ UNCHANGED <<devices, discovered, notification_queue, client, connected,
                   paired, scanning, notification_active,
                   selected_characteristic, handles, bond, threads, shutdown>>

\* ------------------------------------------------------------ formatting
\* The payloads: byte strings over bytes of every class of UTF-8 (ASCII, a
\* continuation byte below and one above A0, the lead bytes C0, C3, E0, ED
\* and F0), up to MaxLen bytes long.
Byte     == {10, 128, 169, 192, 195, 224, 237, 240}
Payloads == UNION {[1..n -> Byte] : n \in 0..MaxLen}

\* datetime.now().strftime("%H:%M:%S")
Clock == {"00:00:00", "23:59:59"}

\* The number of bytes the lead byte b announces, 0 when b cannot lead.
LeadLen(b) ==
    IF b < 128 THEN 1
    ELSE IF b \div 32 = 6 THEN 2
    ELSE IF b \div 16 = 14 THEN 3
    ELSE IF b \div 8 = 30 THEN 4
    ELSE 0

\* The payload bits of a lead byte of a sequence of n bytes.
LeadBits(b, n) == IF n = 1 THEN b ELSE IF n = 2 THEN b % 32 ELSE IF n = 3 THEN b % 16 ELSE b % 8

\* A continuation byte: 10xxxxxx.
IsContinuation(b) == b \div 64 = 2

\* The code point in the first k bytes of the sequence seq of one character.
RECURSIVE CodePoint(_, _)
CodePoint(seq, k) ==
    IF k = 1 THEN LeadBits(seq[1], Len(seq))
    ELSE CodePoint(seq, k - 1) * 64 + (seq[k] % 64)

\* The least code point a sequence of n bytes may encode.
MinCodePoint(n) == IF n = 1 THEN 0 ELSE IF n = 2 THEN 128 ELSE IF n = 3 THEN 2048 ELSE 65536

UnicodeDecodeError == [ok |-> FALSE, text |-> <<>>]

\* data.decode('utf-8') from position i on: the code points, or
\* UnicodeDecodeError for a byte that cannot lead, a truncated sequence, a
\* byte that does not continue, an overlong form, a surrogate or a code
\* point above U+10FFFF.
RECURSIVE DecodeFrom(_, _)
DecodeFrom(data, i) ==
    IF i > Len(data) THEN [ok |-> TRUE, text |-> <<>>]
    ELSE LET n == LeadLen(data[i]) IN
         IF \/ n = 0
            \/ i + n - 1 > Len(data)
            \/ \E k \in 1..(n - 1) : ~IsContinuation(data[i + k])
         THEN UnicodeDecodeError
         ELSE LET cp == CodePoint(SubSeq(data, i, i + n - 1), n) IN
              IF cp < MinCodePoint(n) \/ cp \in 55296..57343 \/ cp > 1114111
              THEN UnicodeDecodeError
              ELSE LET rest == DecodeFrom(data, i + n) IN
                   IF rest.ok
                   THEN [ok |-> TRUE, text |-> <<cp>> \o rest.text]
                   ELSE UnicodeDecodeError

Decode(data) == DecodeFrom(data, 1)

HexDigits == <<"0", "1", "2", "3", "4", "5", "6", "7",
               "8", "9", "a", "b", "c", "d", "e", "f">>

\* format(n, 'x'): the digits of n in base sixteen, no padding.
RECURSIVE ToHex(_)
ToHex(n) ==
    IF n < 16 THEN HexDigits[n + 1]
    ELSE ToHex(n \div 16) \o HexDigits[(n % 16) + 1]

\* The format 02x without its padding.
Hex02_Unpadded(b) == ToHex(b)

\* f'{b:02x}': padded with zeros to two characters.
Hex02(b) == IF b < 16 THEN "0" \o ToHex(b) ELSE ToHex(b)

\* sep.join(parts)
RECURSIVE Join(_, _)
Join(sep, parts) ==
    IF parts = <<>> THEN ""
    ELSE IF Len(parts) = 1 THEN parts[1]
    ELSE parts[1] \o sep \o Join(sep, Tail(parts))

\* ' '.join([f'{b:02x}' for b in data])
HexStr(data) == Join(" ", [i \in 1..Len(data) |-> Hex02(data[i])])

\* A line of the two f-strings, as the sequence of its parts: literals, the
\* fields, and the decoded text as its code points.
TextLine(timestamp, message_type, decoded_str) ==
    <<"[", timestamp, "] ", message_type, ": '", decoded_str, "'\n">>

HexLine(timestamp, message_type, hex_str) ==
    <<"[", timestamp, "] ", message_type, " (hex): ", hex_str, "\n">>

\* format_data_message, with the value of get_timestamp().
format_data_message(data, message_type, timestamp) ==
    IF Decode(data).ok
    THEN TextLine(timestamp, message_type, Decode(data).text)
    ELSE HexLine(timestamp, message_type, HexStr(data))

\* The message of read_data: lines 515-534.
ReadMessage(data, timestamp) ==
    IF Decode(data).ok
    THEN TextLine(timestamp, "Read", Decode(data).text)
    ELSE HexLine(timestamp, "Read", HexStr(data))

\* The message of notification_handler: lines 598-609; the outer except
\* clause is for an exception the two formats cannot raise.
NotificationMessage(data, timestamp) ==
    IF Decode(data).ok
    THEN TextLine(timestamp, "Notification", Decode(data).text)
    ELSE HexLine(timestamp, "Notification", HexStr(data))

\* The message of poll_read: lines 705-714.
PolledMessage(data, timestamp) ==
    IF Decode(data).ok
    THEN TextLine(timestamp, "Polled", Decode(data).text)
    ELSE HexLine(timestamp, "Polled", HexStr(data))

\* The steps of the three paths with the payload in hand; awaited holds the
\* payload the transport handed over, callbacks the line given to
\* on_data_received.  One line is on its way to the window at a time.
LinePending == callbacks # <<>> \/ notification_queue # <<>>

\* read_data after read_gatt_char returned data.
read_data_formats(data, timestamp) ==
    /\ ~LinePending
    /\ awaited' = data
    /\ callbacks' = <<ReadMessage(data, timestamp)>>
    /\ UNCHANGED <<devices, discovered, notification_queue, client, connected,
                   paired, paired_devices, scanning, notification_active,
                   selected_characteristic, handles, bond, threads, sweep,
                   shutdown>>

\* poll_read after read_gatt_char returned data, notification_active true.
poll_read_formats(data, timestamp) ==
    /\ ~LinePending
    /\ awaited' = data
    /\ callbacks' = <<PolledMessage(data, timestamp)>>
    /\ UNCHANGED <<devices, discovered, notification_queue, client, connected,
                   paired, paired_devices, scanning, notification_active,
                   selected_characteristic, handles, bond, threads, sweep,
                   shutdown>>

\* notification_handler(sender, data): the message goes to the queue.
notification_handler_formats(data, timestamp) ==
    /\ ~LinePending
    /\ awaited' = data
    /\ notification_queue' = Append(notification_queue, NotificationMessage(data, timestamp))
    /\ callbacks' = <<>>
    /\ UNCHANGED <<devices, discovered, client, connected,
                   paired, paired_devices, scanning, notification_active,
                   selected_characteristic, handles, bond, threads, sweep,
                   shutdown>>

\* The drain loop takes the message from the queue: lines 630-632.
drain_loop_delivers ==
    /\ notification_queue # <<>>
    /\ callbacks' = <<Head(notification_queue)>>
    /\ notification_queue' = Tail(notification_queue)
    /\ UNCHANGED <<devices, discovered, client, connected,
                   paired, paired_devices, scanning, notification_active,
                   selected_characteristic, handles, bond, threads, sweep,
                   shutdown, awaited>>

\* BLEGUIApp._display_received_data: the window has the line.
_display_received_data ==
    /\ callbacks # <<>>
    /\ awaited' = "none"
    /\ callbacks' = <<>>
    /\ UNCHANGED <<devices, discovered, notification_queue, client, connected,
                   paired, paired_devices, scanning, notification_active,
                   selected_characteristic, handles, bond, threads, sweep,
                   shutdown>>

\* ------------------------------------------------------------ specifications
\* The manager as __init__ leaves it, after a scan session that found the
\* devices of Addr and was stopped: no scan thread is left.
Init ==
    /\ devices = [a \in Addr |-> "name"]
    /\ discovered = NoDevices
    /\ client = None
    /\ connected = FALSE
    /\ paired = FALSE
    /\ paired_devices = {}
    /\ scanning = FALSE
    /\ notification_active = FALSE
    /\ selected_characteristic = None
    /\ notification_queue = <<>>
    /\ handles = [h \in Handles |-> NoHandle]
    /\ bond = [a \in Addr |-> "never"]
    /\ threads = EmptyBag
    /\ sweep = NoSweep
    /\ shutdown = "running"
    /\ awaited = "none"
    /\ callbacks = <<>>

\* The connect calls made so far.
Sessions == Cardinality({h \in Handles : handles[h].pc # "unused"})

ConnectSteps ==
    \/ \E h \in Handles : connect_simple_start(h)
    \/ \E h \in Handles, res \in Outcome, svcOk \in BOOLEAN :
          connect_simple_finish(h, res, svcOk)

DisconnectSteps ==
    \/ disconnect_from_device
    \/ \E r \in BagToSet(threads) : disconnect_simple_start(r)
    \/ \E r \in BagToSet(threads), res \in Outcome : disconnect_simple_finish(r, res)

PairSteps ==
    \/ pair_device
    \/ \E r \in BagToSet(threads) : pair_async_start(r)
    \/ \E r \in BagToSet(threads), res \in Outcome : pair_async_finish(r, res)

UnpairSteps ==
    \/ unpair_device
    \/ \E r \in BagToSet(threads) : unpair_start(r)
    \/ \E r \in BagToSet(threads), res \in Outcome : unpair_finish(r, res)

ShutdownSteps ==
    \/ on_closing
    \/ cleanup_returns
    \/ force_close
    \/ \E q \in Listings(paired_devices) : cleanup_all_start(q)
    \/ \E res \in Outcome : cleanup_all_connect(res)
    \/ \E res \in Outcome : cleanup_all_unpair(res)
    \/ \E res \in Outcome : cleanup_all_disconnect(res)

\* Connecting and disconnecting, with every handle.
ConnNext ==
    \/ \E a \in Addr : connect_to_device(a)
    \/ ConnectSteps
    \/ DisconnectSteps

SpecConn == Init /\ [][ConnNext]_vars

\* The session with its pairing: MaxSessions connect calls.
SessionNext ==
    \/ \E a \in Addr : Sessions < MaxSessions /\ connect_to_device(a)
    \/ ConnectSteps
    \/ DisconnectSteps
    \/ PairSteps
    \/ UnpairSteps

SpecSession == Init /\ [][SessionNext]_vars

\* The manager when the window is closed: the registry holds the addresses
\* of this and of earlier sessions, and a session may be up, paired or not.
InitShutdown ==
    /\ devices = [a \in Addr |-> "name"]
    /\ discovered = NoDevices
    /\ scanning = FALSE
    /\ notification_active = FALSE
    /\ selected_characteristic = None
    /\ notification_queue = <<>>
    /\ paired_devices \in SUBSET Addr
    /\ bond = [a \in Addr |-> IF a \in paired_devices THEN "bonded" ELSE "never"]
    /\ \/ /\ client = None
          /\ connected = FALSE
          /\ paired = FALSE
          /\ handles = [h \in Handles |-> NoHandle]
       \/ \E a \in Addr :
          /\ client = 1
          /\ connected = TRUE
          /\ paired \in {p \in BOOLEAN : p => a \in paired_devices}
          /\ handles = [h \in Handles |->
                          IF h = 1 THEN [addr |-> a, pc |-> "done", up |-> TRUE]
                          ELSE NoHandle]
    /\ threads = EmptyBag
    /\ sweep = NoSweep
    /\ shutdown = "running"
    /\ awaited = "none"
    /\ callbacks = <<>>

\* The shutdown, with the session's pair, unpair and disconnect threads.
ShutdownNext ==
    \/ ShutdownSteps
    \/ DisconnectSteps
    \/ PairSteps
    \/ UnpairSteps

SpecShutdown == InitShutdown /\ [][ShutdownNext]_vars

\* The manager with a session up on a peripheral: connect_to_device went
\* through on the first handle.
InitNotify ==
    /\ devices = [a \in Addr |-> "name"]
    /\ discovered = NoDevices
    /\ client = 1
    /\ connected = TRUE
    /\ paired = FALSE
    /\ paired_devices = {}
    /\ scanning = FALSE
    /\ notification_active = FALSE
    /\ selected_characteristic = None
    /\ notification_queue = <<>>
    /\ handles = [h \in Handles |->
                    IF h = 1 THEN [addr |-> "A", pc |-> "done", up |-> TRUE]
                    ELSE NoHandle]
    /\ bond = [a \in Addr |-> "never"]
    /\ threads = EmptyBag
    /\ sweep = NoSweep
    /\ shutdown = "running"
    /\ awaited = "none"
    /\ callbacks = <<>>

NotifySteps ==
    \/ \E c \in Chars \cup {None} : start_notifications(c)
    \/ stop_notifications
    \/ \E r \in BagToSet(threads) : try_notifications_start(r)
    \/ \E r \in BagToSet(threads), res \in Outcome : try_notifications_subscribed(r, res)
    \/ \E r \in BagToSet(threads) : try_notifications_wakes(r)
    \/ \E r \in BagToSet(threads) : try_notifications_pops(r)
    \/ \E r \in BagToSet(threads) : try_notifications_delivers(r)
    \/ \E r \in BagToSet(threads), res \in Outcome : try_notifications_unsubscribed(r, res)
    \/ \E r \in BagToSet(threads) : notification_handler(r)
    \/ \E r \in BagToSet(threads) : poll_thread_wakes(r)
    \/ \E r \in BagToSet(threads), res \in Outcome : poll_read_finish(r, res)

\* The notification and polling engine of a session, with its disconnect.
NotifyNext ==
    \/ NotifySteps
    \/ DisconnectSteps

SpecNotify == InitNotify /\ [][NotifyNext]_vars

\* The manager as __init__ leaves it: nothing discovered yet.
InitScan ==
    /\ devices = NoDevices
    /\ discovered = NoDevices
    /\ client = None
    /\ connected = FALSE
    /\ paired = FALSE
    /\ paired_devices = {}
    /\ scanning = FALSE
    /\ notification_active = FALSE
    /\ selected_characteristic = None
    /\ notification_queue = <<>>
    /\ handles = [h \in Handles |-> NoHandle]
    /\ bond = [a \in Addr |-> "never"]
    /\ threads = EmptyBag
    /\ sweep = NoSweep
    /\ shutdown = "running"
    /\ awaited = "none"
    /\ callbacks = <<>>

ScanSteps ==
    \/ start_scan
    \/ stop_scan
    \/ \E r \in BagToSet(threads) : scan_devices_start(r)
    \/ \E r \in BagToSet(threads), res \in Outcome, found \in Found :
          scan_devices_discovered(r, res, found)
    \/ \E r \in BagToSet(threads) : scan_devices_wakes(r)

\* Discovery: the scan sessions and their loops.
ScanNext == ScanSteps

SpecScan == InitScan /\ [][ScanNext]_vars

\* The registries discovery can leave behind: any set of addresses, each
\* under the name of its first sighting.
Registries ==
    UNION {[S -> {DeviceName(n) : n \in AdvNames}] : S \in SUBSET Addr}

\* The manager after some discovery, with no session yet.
InitLookup ==
    /\ devices \in Registries
    /\ discovered = NoDevices
    /\ client = None
    /\ connected = FALSE
    /\ paired = FALSE
    /\ paired_devices = {}
    /\ scanning = FALSE
    /\ notification_active = FALSE
    /\ selected_characteristic = None
    /\ notification_queue = <<>>
    /\ handles = [h \in Handles |-> NoHandle]
    /\ bond = [a \in Addr |-> "never"]
    /\ threads = EmptyBag
    /\ sweep = NoSweep
    /\ shutdown = "running"
    /\ awaited = "none"
    /\ callbacks = <<>>

\* Connecting to an address that was or was not discovered.
LookupNext ==
    \/ \E a \in Addr : Sessions < MaxSessions /\ connect_to_device(a)
    \/ ConnectSteps

SpecLookup == InitLookup /\ [][LookupNext]_vars

\* Reading and writing characteristics of a session, with its disconnect.
IOSteps ==
    \/ \E c \in Chars \cup {None} : read_data(c)
    \/ \E r \in BagToSet(threads) : read_thread_start(r)
    \/ \E r \in BagToSet(threads), res \in Outcome : read_thread_finish(r, res)
    \/ \E c \in Chars \cup {None}, entry \in Texts : _send_data(c, entry)
    \/ \E r \in BagToSet(threads) : write_thread_start(r)
    \/ \E r \in BagToSet(threads), res \in Outcome : write_thread_finish(r, res)

IONext ==
    \/ IOSteps
    \/ DisconnectSteps

SpecIO == InitNotify /\ [][IONext]_vars

\* The rendering of payloads on the three delivery paths.
FormatNext ==
    \/ /\ ~LinePending
       /\ \E data \in Payloads, timestamp \in Clock :
             \/ read_data_formats(data, timestamp)
             \/ poll_read_formats(data, timestamp)
             \/ notification_handler_formats(data, timestamp)
    \/ drain_loop_delivers
    \/ _display_received_data

SpecFormat == InitNotify /\ [][FormatNext]_vars

\* A connect while the registry is discovered anew: one connect call next
\* to the scan sessions.
RescanNext ==
    \/ \E a \in Addr : Sessions < MaxSessions /\ connect_to_device(a)
    \/ ConnectSteps
    \/ ScanSteps

SpecRescan == Init /\ [][RescanNext]_vars

\* ------------------------------------------------------------ claims
\* The disconnect threads that end in a step.
DisconnectsEnded ==
    IF Live(threads', "disconnect") < Live(threads, "disconnect")
    THEN Live(threads, "disconnect") - Live(threads', "disconnect")
    ELSE 0

\* C1: when a disconnect operation finishes, whether the transport's
\* disconnect returned or raised, the session is torn down: client is None,
\* connected is false and paired is false.
C1_DisconnectTearsDown ==
    [][DisconnectsEnded > 0 => client' = None /\ ~connected' /\ ~paired']_vars

\* C2: the steps of a disconnect thread call on_disconnected exactly once,
\* when the thread ends, and no other step calls it; a transport disconnect
\* that raised is reported by on_error before it, one that returned by
\* nothing else.
C2_OneDisconnectedEvent ==
    [][/\ Count(callbacks', "disconnected") = DisconnectsEnded
       /\ DisconnectsEnded <= 1
       /\ DisconnectsEnded = 1 =>
             callbacks' = IF awaited' = "raise" THEN <<"error", "disconnected">>
                          ELSE <<"disconnected">>]_vars

\* A transport disconnect raised on a connected session, and on_disconnected
\* was called once, after on_error.
C2_Witness ==
    /\ awaited = "raise"
    /\ callbacks = <<"error", "disconnected">>
    /\ client # None
    /\ connected

\* C3: at most one transport handle is connected, and the handle of a
\* connected session is not replaced as self.client while it is connected.
C3_SingleSession ==
    /\ [](Cardinality({h \in Handles : handles[h].up}) <= 1)
    /\ [][(client # None /\ handles[client].up)
             => (client' = client \/ ~handles'[client].up)]_vars

\* The subscribe calls that fail in a step: a start_notify that raised, or
\* the attribute access on a client that is None.
SubscribesFailed ==
    IF \/ /\ awaited' = "raise"
          /\ LiveAt(threads', "notify", {"subscribing"}) < LiveAt(threads, "notify", {"subscribing"})
       \/ /\ client = None
          /\ LiveAt(threads', "notify", {"spawned"}) < LiveAt(threads, "notify", {"spawned"})
    THEN 1 ELSE 0

\* The pop(0) calls of the drain loops that raise in a step.
PopsFailed ==
    IF /\ notification_queue = <<>>
       /\ LiveAt(threads', "notify", {"popping"}) < LiveAt(threads, "notify", {"popping"})
    THEN 1 ELSE 0

\* C4: the step in which the subscribe call of an accepted start fails
\* reports a message, then started-polling, then the "Polling started" data
\* line, and neither started-real nor an error; its thread, which was
\* subscribing and never draining, is replaced by the polling loop (if
\* notifications are still active on a connected session); and no other step
\* reports started-polling or the "Polling started" line, but that of a
\* drain loop whose pop(0) raises.
C4_SubscribeFailureFallsBack ==
    [][/\ Count(callbacks', "notifications_started_polling") = SubscribesFailed + PopsFailed
       /\ Count(callbacks', "data_received: Polling started") = SubscribesFailed + PopsFailed
       /\ SubscribesFailed = 1 =>
             /\ callbacks' = <<"message", "notifications_started_polling",
                               "data_received: Polling started">>
             /\ LiveAt(threads', "notify", DrainPcs \cup {"unsubscribing"})
                   = LiveAt(threads, "notify", DrainPcs \cup {"unsubscribing"})
             /\ Live(threads', "notify") = Live(threads, "notify") - 1
             /\ Live(threads', "poll") = Live(threads, "poll")
                                          + (IF notification_active /\ connected THEN 1 ELSE 0)]_vars

\* A start_notify call raised on a connected session with notifications
\* active: the fallback was reported and the polling loop runs.
C4_Witness ==
    /\ awaited = "raise"
    /\ callbacks = <<"message", "notifications_started_polling",
                     "data_received: Polling started">>
    /\ notification_active
    /\ connected
    /\ Live(threads, "poll") = 1
    /\ Live(threads, "notify") = 0

\* C5: when the process ends after cleanup() was called, the registry is
\* empty, whatever the per-device sequences of the sweep did and however
\* long they took.
C5_NoneLeftPaired ==
    (shutdown = "closed" /\ sweep.pc # "none") => paired_devices = {}

\* C6: the registry holds exactly the addresses for which a transport pair
\* call succeeded and no later transport unpair call succeeded.
C6_RegistryIsBonded == paired_devices = Bonded

\* C7: the sweep works on every address of its snapshot, whatever raised
\* before; a sequence that went through removes its address from the
\* registry and is reported, one that raised leaves the registry as it is and
\* is reported; so at the end of a sweep that no pair or unpair thread
\* interfered with, the registry is exactly the set of the snapshot's
\* addresses whose sequence raised.
C7_SweepPartialFailure ==
    /\ [](sweep.pc = "done" =>
             /\ sweep.i = Len(sweep.snap) + 1
             /\ sweep.ok + Cardinality(sweep.raised) = Len(sweep.snap)
             /\ ~sweep.touched => paired_devices = sweep.raised)
    /\ [][/\ sweep'.ok = sweep.ok + 1 =>
                /\ paired_devices' = paired_devices \ {sweep.snap[sweep.i]}
                /\ callbacks'[1] = "msg_unpaired"
          /\ sweep'.raised # sweep.raised =>
                /\ sweep'.raised = sweep.raised \cup {sweep.snap[sweep.i]}
                /\ paired_devices' = paired_devices
                /\ callbacks'[1] = "msg_unpair_failed"]_vars

\* A sweep of two addresses ended: the first raised and stays tracked, the
\* second was still worked on and is removed.
C7_Witness ==
    /\ sweep.pc = "done"
    /\ Len(sweep.snap) = 2
    /\ sweep.raised = {sweep.snap[1]}
    /\ sweep.ok = 1
    /\ ~sweep.touched
    /\ paired_devices = sweep.raised

\* C8: the step that ends a sweep of n > 0 addresses, k of them unpaired,
\* reports one summary: all unpaired iff k = n, k of n iff 0 < k < n, none
\* iff k = 0.
C8_SummaryMatchesSweep ==
    [][(sweep.pc # "done" /\ sweep'.pc = "done" /\ Len(sweep'.snap) > 0) =>
          LET n == Len(sweep'.snap)
              k == sweep'.ok
          IN  /\ Count(callbacks', "msg_all_unpaired") + Count(callbacks', "msg_partial")
                   + Count(callbacks', "msg_none_unpaired") = 1
              /\ Count(callbacks', "msg_all_unpaired") = 1 <=> k = n
              /\ Count(callbacks', "msg_partial") = 1 <=> (0 < k /\ k < n)
              /\ Count(callbacks', "msg_none_unpaired") = 1 <=> k = 0]_vars

\* C9: a pair that succeeds sets paired and adds the session's address to
\* the registry; an unpair that succeeds clears paired and removes the
\* session's address from the registry: after the two the address is not in
\* the registry and paired is false.
C9_PairUnpairRoundTrip ==
    [][/\ Count(callbacks', "paired_successfully") = 1 =>
             /\ paired'
             /\ paired_devices' = paired_devices \cup {ClientAddress}
       /\ Count(callbacks', "unpaired_successfully") = 1 =>
             /\ ~paired'
             /\ paired_devices' = paired_devices \ {ClientAddress}]_vars

\* An unpair just succeeded on the address of a connected session that a
\* pair had bonded: the address is not tracked and paired is false, as
\* before the pair.
C9_Witness ==
    /\ callbacks = <<"unpaired_successfully">>
    /\ client # None
    /\ connected
    /\ bond[ClientAddress] = "released"
    /\ ~paired
    /\ paired_devices = {}

\* C10: a transport pair call that raises is reported by on_pairing_failed,
\* a transport unpair call that raises by on_unpairing_failed, and neither
\* changes paired or the registry.
C10_FailureLeavesPairing ==
    [][/\ (awaited' = "raise" /\ Live(threads', "pair") < Live(threads, "pair")) =>
             /\ callbacks' = <<"pairing_failed">>
             /\ UNCHANGED <<paired, paired_devices>>
       /\ (awaited' = "raise" /\ Live(threads', "unpair") < Live(threads, "unpair")) =>
             /\ callbacks' = <<"unpairing_failed">>
             /\ UNCHANGED <<paired, paired_devices>>]_vars

\* An unpair raised on a paired, tracked session, which is still paired and
\* tracked.
C10_Witness ==
    /\ awaited = "raise"
    /\ callbacks = <<"unpairing_failed">>
    /\ client # None
    /\ paired
    /\ ClientAddress \in paired_devices

\* C11: in every reachable state the paired flag is true only while the
\* session is connected.
C11_PairedOnlyConnected == paired => connected

\* A pair call that was in flight returned after the
\* disconnect of the session had completed: paired is true with no session.
C11_Witness ==
    /\ paired
    /\ ~connected
    /\ client = None
    /\ awaited = "ok"
    /\ callbacks = <<"pairing_failed">>
    /\ \E h \in Handles : handles[h].pc = "done" /\ ~handles[h].up

\* C12: an entry of the device registry is never changed: a step keeps the
\* name of every address that stays a key, a discover call that returns adds
\* exactly the addresses it found that were no keys, under the name of that
\* sighting, and keys are removed only by start_scan, which removes them
\* all.
C12_FirstSightingWins ==
    [][/\ \A a \in DOMAIN devices \cap DOMAIN devices' : devices'[a] = devices[a]
       /\ \/ DOMAIN devices \subseteq DOMAIN devices'
          \/ DOMAIN devices' = {} /\ callbacks' = <<"scan_started">>
       /\ DOMAIN devices' # DOMAIN devices /\ DOMAIN devices' # {} =>
             /\ DOMAIN devices' = DOMAIN devices \cup DOMAIN discovered'
             /\ \A a \in DOMAIN devices' \ DOMAIN devices :
                   devices'[a] = DeviceName(discovered'[a])]_vars

\* A discover call returned a device whose address was a key already, under
\* another name than the stored one, which is the name of an earlier
\* sighting.
C12_Witness ==
    /\ awaited = "ok"
    /\ "A" \in DOMAIN devices \cap DOMAIN discovered
    /\ devices["A"] = "name"
    /\ discovered["A"] = "renamed"
    /\ callbacks = <<>>

\* The discover calls in flight in the bag b that were made in an earlier
\* session: before a stop_scan and the start_scan that followed it.
StalePasses(b) ==
    BagCardinality([r \in {x \in BagToSet(b) : /\ x.kind = "scan"
                                               /\ x.pc = "discovering"
                                               /\ x.h = Mark
                                               /\ x.c = Mark} |-> b[r]])

\* C13: start_scan empties the registry, and the registry of a scan session
\* holds only devices of the passes of that session: a discover call made
\* in the session before adds no entry when it returns after start_scan.
C13_RegistryOfSession ==
    [][/\ Count(callbacks', "scan_started") = 1 => DOMAIN devices' = {}
       /\ StalePasses(threads') < StalePasses(threads) =>
             DOMAIN devices' \subseteq DOMAIN devices]_vars

\* The discover calls in flight in the bag b of loops that stop_scan was
\* called on.
StoppedPasses(b) ==
    BagCardinality([r \in {x \in BagToSet(b) : /\ x.kind = "scan"
                                               /\ x.pc = "discovering"
                                               /\ x.h = Mark} |-> b[r]])

\* C14: a discovery loop that was running when stop_scan was called makes no
\* discover call after it: the discover calls in flight of such loops are
\* those that were in flight at the call of stop_scan.
C14_StoppedLoopExits ==
    [][StoppedPasses(threads') > StoppedPasses(threads) =>
          Count(callbacks', "scan_stopped") = 1]_vars

\* The discover calls that raise in a step.
ScansRaised ==
    IF /\ awaited' = "raise"
       /\ LiveAt(threads', "scan", {"discovering"}) < LiveAt(threads, "scan", {"discovering"})
    THEN 1 ELSE 0

\* C15: the step in which a discover call raises reports one error and
\* nothing else, leaves the registry as it is, and ends the thread of the
\* loop, also when scanning is still true: no sleep and no discover call of
\* that loop follows, and so no second error.
C15_ScanErrorEndsLoop ==
    [][ScansRaised = 1 =>
          /\ callbacks' = <<"error">>
          /\ devices' = devices
          /\ Live(threads', "scan") = Live(threads, "scan") - 1
          /\ LiveAt(threads', "scan", {"sleeping", "spawned"})
                = LiveAt(threads, "scan", {"sleeping", "spawned"})]_vars

\* The discover call of the only loop raised while scanning was true: the
\* error was reported and no loop is left.
C15_Witness ==
    /\ awaited = "raise"
    /\ callbacks = <<"error">>
    /\ scanning
    /\ Live(threads, "scan") = 0

\* C16: a connect request is refused with one error event, and with no
\* other effect, exactly when its address is not a key of the registry: the
\* step that reports the error and awaited nothing creates no handle and
\* leaves client, connected and paired as they are; a handle is created, and
\* 'connection started' reported, only for an address of the registry.
C16_UnknownAddressRefused ==
    [][/\ (callbacks' = <<"error">> /\ awaited' = "none") =>
              /\ handles' = handles
              /\ client' = client
              /\ connected' = connected
              /\ paired' = paired
       /\ \A h \in Handles :
             (handles[h].pc = "unused" /\ handles'[h] # handles[h]) =>
                 /\ handles'[h].addr \in DOMAIN devices
                 /\ callbacks' = <<"connection_started">>
       /\ Count(callbacks', "connection_started") > 0 =>
             \E h \in Handles : /\ handles[h].pc = "unused"
                                /\ handles'[h].pc = "spawned"]_vars

\* A connect request was refused while the registry held another address:
\* no handle exists.
C16_Witness ==
    /\ callbacks = <<"error">>
    /\ awaited = "none"
    /\ DOMAIN devices = {"A"}
    /\ \A h \in Handles : handles[h] = NoHandle
    /\ client = None
    /\ ~connected

\* The transport connect calls that raise in a step.
ConnectsFailed ==
    IF /\ awaited' = "raise"
       /\ \E h \in Handles : handles[h].pc = "connecting" /\ handles'[h].pc = "done"
    THEN 1 ELSE 0

\* C17: the step in which the transport connect call raises reports one
\* 'connection failed' event and leaves no session: connected is false and
\* no transport handle is retained in client.
C17_FailedConnectLeavesNoSession ==
    [][ConnectsFailed = 1 =>
          /\ callbacks' = <<"connection_failed">>
          /\ ~connected'
          /\ client' = None]_vars

\* The connect call of the only session raised: the failure was reported
\* and connected is false, but client still holds the handle that failed.
C17_Witness ==
    /\ awaited = "raise"
    /\ callbacks = <<"connection_failed">>
    /\ ~connected
    /\ client # None
    /\ handles[client].pc = "done"
    /\ ~handles[client].up
    /\ \A h \in Handles \ {client} : handles[h] = NoHandle

\* C18: once cleanup has returned no session exists: client is None and
\* connected is false, whether or not a disconnect was requested before.
C18_CleanupDestroysSession ==
    shutdown = "returned" => client = None /\ ~connected

\* cleanup has returned, the sweep is over and no disconnect is under way,
\* and the session that was up when the window was closed is still there.
C18_Witness ==
    /\ shutdown = "returned"
    /\ sweep.pc = "done"
    /\ Live(threads, "disconnect") = 0
    /\ client # None
    /\ connected
    /\ handles[client].up

\* The 'started' events of a step: the mode becomes RealNotify or Polling.
StartedEvents(cb) ==
    Count(cb, "notifications_started_real") + Count(cb, "notifications_started_polling")

\* The session is up and no disconnect has been requested.
SessionStands == connected /\ client # None /\ Live(threads, "disconnect") = 0

\* C19: the mode becomes RealNotify or Polling only from Subscribing.  When
\* the only thread of the engine reports 'started-real' or
\* 'started-polling' on a standing session, notification_active is still
\* true: with the session standing only stop_notifications clears the flag
\* that the start of this thread had set, so no stop was issued while it
\* was Subscribing.
C19_ModeFollowsStateMachine ==
    [][(/\ StartedEvents(callbacks') > 0
        /\ SessionStands
        /\ BagCardinality(threads) = 1) => notification_active]_vars

\* The session is up, nothing but the one notification thread runs, the
\* engine is stopped, and 'started-real' has just been reported.
C19_Witness ==
    /\ callbacks = <<"notifications_started_real">>
    /\ ~notification_active
    /\ connected
    /\ client # None
    /\ BagCardinality(threads) = 1
    /\ LiveAt(threads, "notify", {"unsubscribing"}) = 1

\* The threads of the bag b that wait for start_notify on characteristic c.
SubscribingTo(b, c) ==
    BagCardinality([r \in {x \in BagToSet(b) : /\ x.kind = "notify"
                                               /\ x.pc = "subscribing"
                                               /\ x.c = c} |-> b[r]])

\* The loops of the bag b that serve a subscription on a characteristic
\* other than c: a drain loop before its stop_notify, or a polling loop.
ServingOther(b, c) ==
    {r \in BagToSet(b) : /\ r.c # c
                         /\ \/ r.kind = "notify" /\ r.pc \in DrainPcs
                            \/ r.kind = "poll"}

\* C20: when the subscribe call for a characteristic is made, no loop
\* serves a subscription on another characteristic any more: a drain loop
\* has left for its stop_notify, a polling loop has ended.
C20_SwitchStopsExisting ==
    [][\A c \in Chars :
          SubscribingTo(threads', c) > SubscribingTo(threads, c) =>
              ServingOther(threads, c) = {}]_vars

\* The subscribe call for characteristic 2 is under way while the drain
\* loop of characteristic 1 runs on, the engine being active.
C20_Witness ==
    /\ notification_active
    /\ selected_characteristic = 2
    /\ SubscribingTo(threads, 2) = 1
    /\ \E r \in ServingOther(threads, 2) : r.kind = "notify" /\ r.c = 1

\* The delivery loops of the bag b: the drain loops before their stop_notify
\* and the polling loops.
DeliveryLoops(b) ==
    LiveAt(b, "notify", DrainPcs) + Live(b, "poll")

\* C21: at most one delivery loop, drain loop or polling loop, runs for the
\* session at any time.
C21_OneDeliveryLoop ==
    DeliveryLoops(threads) <= 1

\* Two drain loops run on the standing session, the engine being active.
C21_Witness ==
    /\ SessionStands
    /\ notification_active
    /\ LiveAt(threads, "notify", {"draining"}) = 2

\* C22: the messages are delivered in the order in which the handler put
\* them in the queue, each at most once: when the data line of a message is
\* reported, no message that was enqueued before it, and so has a lower
\* serial number, is still to be delivered by a drain loop that popped it.
C22_FifoDelivery ==
    [][\A n \in 1..MaxSerial :
          callbacks' = <<DataLine(n)>> =>
              \A x \in BagToSet(threads') : x.pc = "delivering" => x.m > n]_vars

\* The second message has just been delivered on the standing session while
\* a drain loop still holds the first, which it popped before.
C22_Witness ==
    /\ SessionStands
    /\ callbacks = <<DataLine(2)>>
    /\ \E x \in BagToSet(threads) : x.kind = "notify" /\ x.pc = "delivering" /\ x.m = 1

\* The iterations begun by loops that stop_notifications was called on: the
\* drain loops of the bag b that go for a message, the polling loops that
\* await a read.
StoppedIterations(b) ==
    BagCardinality([r \in {x \in BagToSet(b) :
                              /\ x.told
                              /\ \/ x.kind = "notify" /\ x.pc = "popping"
                                 \/ x.kind = "poll" /\ x.pc = "reading"} |-> b[r]])

\* The stop_notify calls that raise in a step.
UnsubscribesFailed ==
    IF /\ awaited' = "raise"
       /\ LiveAt(threads', "notify", {"unsubscribing"})
             < LiveAt(threads, "notify", {"unsubscribing"})
    THEN 1 ELSE 0

\* C23: stop_notifications leaves the engine inactive; a delivery loop that
\* ran when it was called begins no further iteration, no pop and no
\* transport read, after the one it is in; and a stop_notify call that
\* raises reports nothing and changes nothing but the end of its thread.
C23_StopEndsLoops ==
    [][/\ Count(callbacks', "notifications_stopped") = 1 => ~notification_active'
       /\ StoppedIterations(threads') > StoppedIterations(threads) =>
             Count(callbacks', "notifications_stopped") = 1
       /\ UnsubscribesFailed = 1 =>
             /\ callbacks' = <<>>
             /\ Live(threads', "notify") = Live(threads, "notify") - 1
             /\ BagCardinality(threads') = BagCardinality(threads) - 1
             /\ UNCHANGED <<client, connected, paired, paired_devices,
                            notification_active, selected_characteristic,
                            notification_queue, handles, bond>>]_vars

\* A polling loop that stop_notifications was called on awaits a read on
\* the standing session, the engine being active again.
C23_Witness ==
    /\ SessionStands
    /\ notification_active
    /\ \E x \in BagToSet(threads) : x.told /\ x.kind = "poll" /\ x.pc = "reading"

\* The reads of the polling loops that raise in a step.
PollReadsFailed ==
    IF /\ awaited' = "raise"
       /\ LiveAt(threads', "poll", {"reading"}) < LiveAt(threads, "poll", {"reading"})
    THEN 1 ELSE 0

\* C24: the step in which a read of a polling loop raises reports nothing
\* and changes no attribute; with notifications active on a connected
\* session the loop goes back to sleep, after which it reads again; and a
\* polling loop ends only with notifications inactive or the session
\* disconnected.
C24_PollFailureSilent ==
    [][/\ PollReadsFailed = 1 =>
             /\ callbacks' = <<>>
             /\ UNCHANGED <<client, connected, paired, paired_devices,
                            notification_active, selected_characteristic,
                            notification_queue, handles, bond>>
             /\ LoopGoesOn =>
                   /\ Live(threads', "poll") = Live(threads, "poll")
                   /\ LiveAt(threads', "poll", {"sleeping"})
                         = LiveAt(threads, "poll", {"sleeping"}) + 1
       /\ Live(threads', "poll") < Live(threads, "poll") => ~LoopGoesOn
       /\ (/\ LiveAt(threads', "poll", {"sleeping"}) < LiveAt(threads, "poll", {"sleeping"})
           /\ LoopGoesOn /\ client # None) =>
             LiveAt(threads', "poll", {"reading"})
                = LiveAt(threads, "poll", {"reading"}) + 1]_vars

\* A read of the only polling loop raised with notifications active on the
\* standing session: nothing was reported and the loop sleeps.
C24_Witness ==
    /\ awaited = "raise"
    /\ callbacks = <<>>
    /\ SessionStands
    /\ notification_active
    /\ BagCardinality(threads) = 1
    /\ LiveAt(threads, "poll", {"sleeping"}) = 1

\* C25: a step that reports an error and awaited nothing, as a refused
\* start_notifications is, changes no attribute and starts no thread; and
\* 'starting' is reported, and a notification thread started, only with a
\* characteristic and a connected client.
C25_StartRefused ==
    [][/\ (callbacks' = <<"error">> /\ awaited' = "none") =>
             UNCHANGED <<client, connected, paired, paired_devices,
                         notification_active, selected_characteristic,
                         notification_queue, handles, bond, threads>>
       /\ Count(callbacks', "notifications_starting") > 0 =>
             /\ client # None
             /\ connected
             /\ selected_characteristic' # None
       /\ LiveAt(threads', "notify", {"spawned"}) > LiveAt(threads, "notify", {"spawned"}) =>
             callbacks' = <<"notifications_starting">>]_vars

\* start_notifications was refused on a session that is up, for want of a
\* characteristic: the engine is as it was, idle.
C25_Witness ==
    /\ callbacks = <<"error">>
    /\ awaited = "none"
    /\ SessionStands
    /\ ~notification_active
    /\ selected_characteristic = None
    /\ threads = EmptyBag

\* The number of threads of kind k that a step ends.
Ended(k) ==
    IF Live(threads', k) < Live(threads, k)
    THEN Live(threads, k) - Live(threads', k) ELSE 0

\* C26 as stated: every accepted read issues exactly one transport read, so
\* a read thread ends only when it comes back from read_gatt_char.
C26_ExactlyOneRead ==
    [][Ended("read") = 1 =>
          LiveAt(threads', "read", {"reading"}) = LiveAt(threads, "read", {"reading"}) - 1]_vars

\* C26, amended: a read is accepted ('read started' and a read thread) only
\* with a characteristic and a connected client, and a refused one reports
\* an error and changes nothing.  An accepted read issues at most one
\* transport read, none when the client is gone by the time its thread runs,
\* and ends in one event: the data line when the read returned, an error
\* when it raised or was never issued.  Data lines of reads come from no
\* other step.
C26_OneReadOneOutcome ==
    [][/\ LiveAt(threads', "read", {"spawned"}) > LiveAt(threads, "read", {"spawned"}) =>
             /\ callbacks' = <<"read_started">>
             /\ client # None /\ connected
             /\ \A r \in BagToSet(threads') : r.kind = "read" => r.c \in Chars
       /\ Count(callbacks', "read_started") > 0 =>
             LiveAt(threads', "read", {"spawned"}) = LiveAt(threads, "read", {"spawned"}) + 1
       /\ (callbacks' = <<"error">> /\ awaited' = "none") =>
             /\ Live(threads', "read") <= Live(threads, "read")
             /\ LiveAt(threads', "read", {"reading"}) = LiveAt(threads, "read", {"reading"})
             /\ UNCHANGED <<client, connected, paired, paired_devices,
                            notification_active, selected_characteristic,
                            notification_queue, handles, bond>>
       /\ LiveAt(threads', "read", {"reading"}) > LiveAt(threads, "read", {"reading"}) =>
             /\ LiveAt(threads', "read", {"spawned"})
                   = LiveAt(threads, "read", {"spawned"}) - 1
             /\ Live(threads', "read") = Live(threads, "read")
             /\ client # None
             /\ callbacks' = <<>>
       /\ Ended("read") > 0 =>
             /\ Ended("read") = 1
             /\ BagCardinality(threads') = BagCardinality(threads) - 1
             /\ IF LiveAt(threads', "read", {"reading"}) < LiveAt(threads, "read", {"reading"})
                THEN /\ awaited' \in Outcome
                     /\ callbacks' = IF awaited' = "ok"
                                     THEN <<"data_received: Read">> ELSE <<"error">>
                ELSE /\ awaited' = "none"
                     /\ client = None
                     /\ callbacks' = <<"error">>
       /\ Count(callbacks', "data_received: Read") > 0 =>
             /\ Ended("read") = 1
             /\ awaited' = "ok"]_vars

\* The only read of the session has returned: its data line was reported
\* and no thread is left.
C26_Witness ==
    /\ awaited = "ok"
    /\ callbacks = <<"data_received: Read">>
    /\ SessionStands
    /\ threads = EmptyBag

\* The write threads of the bag b that await write_gatt_char.
Writing(b) == LiveAt(b, "write", WritePcs)

\* C27 as stated: every accepted write issues exactly one transport write,
\* so a write thread ends only when it comes back from write_gatt_char.
C27_ExactlyOneWrite ==
    [][Ended("write") = 1 => Writing(threads') = Writing(threads) - 1]_vars

\* C27, amended: an accepted write issues at most one transport write, none
\* when the client is gone by the time its thread runs; the write is made
\* without response if and only if the properties of the characteristic
\* hold write-without-response, whatever else they hold; and the write ends
\* in one event: send-succeeded when the call returned, an error when it
\* raised or was never issued.  Send-succeeded comes from no other step.
C27_WriteModeAndOutcome ==
    [][/\ \A r \in BagToSet(threads') :
             (r.kind = "write" /\ r.pc \in WritePcs) =>
                 (r.pc = "write_without_response"
                     <=> "write-without-response" \in Properties(r.c))
       /\ Writing(threads') > Writing(threads) =>
             /\ LiveAt(threads', "write", {"spawned"})
                   = LiveAt(threads, "write", {"spawned"}) - 1
             /\ Live(threads', "write") = Live(threads, "write")
             /\ client # None
             /\ callbacks' = <<>>
       /\ Ended("write") > 0 =>
             /\ Ended("write") = 1
             /\ BagCardinality(threads') = BagCardinality(threads) - 1
             /\ IF Writing(threads') < Writing(threads)
                THEN /\ awaited' \in Outcome
                     /\ callbacks' = IF awaited' = "ok"
                                     THEN <<"send_success">> ELSE <<"error">>
                ELSE /\ awaited' = "none"
                     /\ client = None
                     /\ callbacks' = <<"error">>
       /\ Count(callbacks', "send_success") > 0 =>
             /\ Ended("write") = 1
             /\ awaited' = "ok"]_vars

\* A write without response is under way on a characteristic that takes
\* both kinds of write.
C27_Witness ==
    \E r \in BagToSet(threads) :
        /\ r.kind = "write"
        /\ r.pc = "write_without_response"
        /\ {"write", "write-without-response"} \subseteq Properties(r.c)

\* The 'send started' events of a step, and those of them for an empty
\* text.
SendStarted(cb) ==
    {i \in DOMAIN cb : \E t \in Texts : cb[i] = "send_started: " \o t}
SendStartedEmpty(cb) ==
    {i \in DOMAIN cb : cb[i] = "send_started: "}

\* C28: 'send started' is never reported for an empty text, and it is
\* reported, and a write thread started, only with a characteristic and a
\* connected client: a step that starts a write thread reports one 'send
\* started' and nothing else, and no other step reports it.  A transport
\* write is issued by a write thread only.
C28_WriteRefused ==
    [][/\ SendStartedEmpty(callbacks') = {}
       /\ LiveAt(threads', "write", {"spawned"}) > LiveAt(threads, "write", {"spawned"}) =>
             /\ Len(callbacks') = 1
             /\ SendStarted(callbacks') = {1}
       /\ SendStarted(callbacks') # {} =>
             /\ LiveAt(threads', "write", {"spawned"})
                   = LiveAt(threads, "write", {"spawned"}) + 1
             /\ client # None /\ connected
       /\ \A r \in BagToSet(threads') : r.kind = "write" => r.c \in Chars
       /\ Writing(threads') > Writing(threads) =>
             LiveAt(threads', "write", {"spawned"})
                < LiveAt(threads, "write", {"spawned"})]_vars

\* A write was refused after the session was disconnected: the error was
\* reported and no write thread exists.
C28_Witness ==
    /\ callbacks = <<"error: No device connected for sending data">>
    /\ awaited = "none"
    /\ client = None
    /\ ~connected
    /\ Live(threads, "write") = 0

\* C29: while cleanup sleeps its CLEANUP_TIMEOUT its return is enabled,
\* wherever the sweep is: not started, awaiting a connect or an unpair that
\* may never return, or done; and the return leaves the sweep where it is.
C29_CleanupReturns ==
    /\ shutdown = "cleanup" => ENABLED cleanup_returns
    /\ shutdown = "returned" => sweep.pc # "none"

\* cleanup has returned while the sweep still awaits the connect call of
\* its first device.
C29_Witness ==
    /\ shutdown = "returned"
    /\ sweep.pc = "connect"
    /\ sweep.i = 1
    /\ paired_devices # {}

\* The addresses of a snapshot of the sweep.
Snapshot(q) == {q[i] : i \in 1..Len(q)}

\* C30: the step on which a disconnect thread ends leaves paired_devices as
\* it was, and when the transport's disconnect returned the paired flag is
\* false after it; the snapshot cleanup_all takes is the whole of
\* paired_devices, the addresses of disconnected sessions included.
C30_DisconnectKeepsRegistry ==
    [][/\ DisconnectsEnded > 0
          => /\ paired_devices' = paired_devices
             /\ awaited' = "ok" => ~paired'
       /\ (sweep.pc = "spawned" /\ sweep'.pc # "spawned")
          => Snapshot(sweep'.snap) = paired_devices]_vars

\* The session of a tracked address was disconnected, nothing is paired, and
\* the sweep has taken a snapshot that holds the address.
C30_Witness ==
    /\ client = None
    /\ ~paired
    /\ \E h \in Handles :
          /\ handles[h].pc = "done"
          /\ ~handles[h].up
          /\ handles[h].addr \in paired_devices
          /\ handles[h].addr \in Snapshot(sweep.snap)
    /\ sweep.pc = "connect"

\* Position i of data holds a byte of lo..hi.
Within(data, i, lo, hi) == i <= Len(data) /\ lo <= data[i] /\ data[i] <= hi

\* data from position i on.
From(data, i) == SubSeq(data, i, Len(data))

\* The well-formed UTF-8 byte sequences, by the ranges of their bytes.
RECURSIVE WellFormedUtf8(_)
WellFormedUtf8(d) ==
    \/ Len(d) = 0
    \/ Within(d, 1, 0, 127) /\ WellFormedUtf8(From(d, 2))
    \/ /\ Within(d, 1, 194, 223)
       /\ Within(d, 2, 128, 191)
       /\ WellFormedUtf8(From(d, 3))
    \/ /\ \/ Within(d, 1, 224, 224) /\ Within(d, 2, 160, 191)
          \/ Within(d, 1, 225, 236) /\ Within(d, 2, 128, 191)
          \/ Within(d, 1, 237, 237) /\ Within(d, 2, 128, 159)
          \/ Within(d, 1, 238, 239) /\ Within(d, 2, 128, 191)
       /\ Within(d, 3, 128, 191)
       /\ WellFormedUtf8(From(d, 4))
    \/ /\ \/ Within(d, 1, 240, 240) /\ Within(d, 2, 144, 191)
          \/ Within(d, 1, 241, 243) /\ Within(d, 2, 128, 191)
          \/ Within(d, 1, 244, 244) /\ Within(d, 2, 128, 143)
       /\ Within(d, 3, 128, 191)
       /\ Within(d, 4, 128, 191)
       /\ WellFormedUtf8(From(d, 5))

\* The UTF-8 bytes of a code point.
EncodeOne(cp) ==
    IF cp < 128 THEN <<cp>>
    ELSE IF cp < 2048 THEN <<192 + (cp \div 64), 128 + (cp % 64)>>
    ELSE IF cp < 65536
    THEN <<224 + (cp \div 4096), 128 + ((cp \div 64) % 64), 128 + (cp % 64)>>
    ELSE <<240 + (cp \div 262144), 128 + ((cp \div 4096) % 64),
           128 + ((cp \div 64) % 64), 128 + (cp % 64)>>

\* The UTF-8 bytes of a text.
RECURSIVE Encode(_)
Encode(text) ==
    IF Len(text) = 0 THEN <<>> ELSE EncodeOne(Head(text)) \o Encode(Tail(text))

\* The bytes of data as pairs of lowercase hexadecimal digits with single
\* spaces between them.
RECURSIVE SpacedPairs(_)
SpacedPairs(data) ==
    IF Len(data) = 0 THEN ""
    ELSE LET last == data[Len(data)]
             pair == HexDigits[(last \div 16) + 1] \o HexDigits[(last % 16) + 1]
         IN  IF Len(data) = 1 THEN pair
             ELSE SpacedPairs(SubSeq(data, 1, Len(data) - 1)) \o " " \o pair

\* The lines on their way to the window.
LinesUnderWay ==
    {callbacks[i] : i \in DOMAIN callbacks} \cup
    {notification_queue[i] : i \in DOMAIN notification_queue}

\* C31: the line made of a payload has the text form, with the text whose
\* UTF-8 bytes the payload is, if and only if the payload is well-formed
\* UTF-8, and otherwise the hex form with the bytes as pairs of lowercase
\* digits between single spaces; on each of the three paths it is the line
\* format_data_message makes of the same bytes, kind and time, and a line
\* in the notification queue is of kind Notification.
C31_Rendering ==
    \A line \in LinesUnderWay :
       /\ line[2] \in Clock
       /\ line[4] \in {"Read", "Notification", "Polled"}
       /\ line = format_data_message(awaited, line[4], line[2])
       /\ (line[5] = ": '") <=> WellFormedUtf8(awaited)
       /\ IF line[5] = ": '"
          THEN /\ line = <<"[", line[2], "] ", line[4], ": '", line[6], "'\n">>
               /\ Encode(line[6]) = awaited
          ELSE line = <<"[", line[2], "] ", line[4], " (hex): ", SpacedPairs(awaited), "\n">>
       /\ (\E i \in DOMAIN notification_queue : notification_queue[i] = line)
             => line[4] = "Notification"

\* The drain loop delivers the hex line of a notification whose payload
\* starts an overlong form and holds a byte below sixteen.
C31_Witness ==
    callbacks = <<<<"[", "23:59:59", "] ", "Notification", " (hex): ", "e0 80 0a", "\n">>>>

\* C32: a step emits as many devices_updated events as it adds addresses to
\* the registry: a discovery pass one for each address it adds and none for
\* an address that is a key already, every other step none; so the events
\* of a scan session are as many as the entries added in it.
C32_OneEventPerNewDevice ==
    [][Count(callbacks', "devices_updated") =
          Cardinality(DOMAIN devices' \ DOMAIN devices)]_vars

\* A pass found two devices and reported one: the other was a key already.
C32_Witness ==
    /\ awaited = "ok"
    /\ Cardinality(DOMAIN discovered) = 2
    /\ DOMAIN devices = DOMAIN discovered
    /\ callbacks = <<"devices_updated">>

\* C33: when the transport connect returned and the access to the services
\* then fails, the step sets connected, leaves client and the handle's
\* connection as they are, and reports connected and the message of the
\* degraded connect, and no connection_failed.
C33_ServiceFailureKeepsSession ==
    [][\A h \in Handles :
          (connect_simple_finish(h, "ok", FALSE) /\ handles[h].addr \in DOMAIN devices)
             => /\ connected'
                /\ client' = client
                /\ handles'[h].up
                /\ callbacks' = <<"connected", "message">>]_vars

\* The session is up on the handle of the connect whose services failed.
C33_Witness ==
    /\ callbacks = <<"connected", "message">>
    /\ awaited = "ok"
    /\ connected
    /\ client # None
    /\ handles[client].pc = "done"
    /\ handles[client].up

\* C34: disconnect_from_device with no client reports the error and no
\* more: no disconnect thread is started, so no transport disconnect is
\* called and no disconnected is reported, and notification_active, paired,
\* paired_devices, client and connected are as before.
C34_DisconnectRefused ==
    [][(client = None /\ disconnect_from_device)
          => /\ callbacks' = <<"error: No device connected to disconnect from">>
             /\ threads' = threads
             /\ UNCHANGED <<notification_active, paired, paired_devices, client,
                            connected, handles, bond>>]_vars

\* disconnect_from_device was refused after the session of a paired device
\* was disconnected, its address still in paired_devices.
C34_Witness ==
    /\ callbacks = <<"error: No device connected to disconnect from">>
    /\ client = None
    /\ paired_devices # {}
    /\ threads = EmptyBag

\* The transport's disconnect has been called and has not come back.
DisconnectUnderWay(b) == LiveAt(b, "disconnect", {"awaiting"}) > 0

\* C35: while the transport's disconnect is under way no step begins a
\* polling read and none delivers a notification.
C35_NothingBeginsAfterDisconnect ==
    [][DisconnectUnderWay(threads) =>
          /\ LiveAt(threads', "poll", {"reading"}) <= LiveAt(threads, "poll", {"reading"})
          /\ \A n \in 1..MaxSerial : callbacks' # <<DataLine(n)>>]_vars

\* A polling read was issued while the transport's disconnect is under way,
\* notification_active being true again.
C35_Witness ==
    /\ DisconnectUnderWay(threads)
    /\ notification_active
    /\ LiveAt(threads, "poll", {"reading"}) > 0

\* C36: while scanning is true a discovery loop is live.
C36_ScanningMeansLoop == scanning => Live(threads, "scan") > 0

\* The only loop has ended on a discover call that raised, and scanning is
\* still true.
C36_Witness ==
    /\ scanning
    /\ Live(threads, "scan") = 0
    /\ awaited = "raise"
    /\ callbacks = <<"error">>

\* C37: at most one discovery loop is live.
C37_OneDiscoveryLoop == Live(threads, "scan") <= 1

\* Two loops are inside a discover call: the loop of the session and a loop
\* that stop_scan had told to stop, which found scanning true again at its
\* while test and began another pass.
C37_Witness ==
    /\ scanning
    /\ \E r \in BagToSet(threads) :
          /\ r.kind = "scan" /\ r.pc = "discovering" /\ r.h = Mark /\ r.c = None
          /\ \E x \in BagToSet(threads) :
                x.kind = "scan" /\ x.pc = "discovering" /\ x.h = None

\* C38: the step that ends the connect of a handle reports exactly one of
\* connected and connection_failed, and when it reports connection_failed
\* connected is false after it.
C38_FailedMeansNotConnected ==
    [][\A h \in Handles :
          (handles[h].pc = "connecting" /\ handles'[h].pc = "done")
             => /\ Count(callbacks', "connected") + Count(callbacks', "connection_failed") = 1
                /\ Count(callbacks', "connection_failed") = 1 => ~connected']_vars

\* The transport connect returned, the address was no key of the registry
\* any more, and connection_failed was reported with connected true.
C38_Witness ==
    /\ awaited = "ok"
    /\ callbacks = <<"connection_failed">>
    /\ connected
    /\ client # None
    /\ handles[client].up
    /\ handles[client].addr \notin DOMAIN devices

\* C39: the step on which a transport pair call returns adds the address of
\* the handle that was paired to paired_devices, adds no other address, and
\* reports paired_successfully.
C39_PairedAddressTracked ==
    [][\A r \in BagToSet(threads) :
          (r.kind = "pair" /\ r.pc = "awaiting" /\ pair_async_finish(r, "ok"))
             => /\ handles[r.h].addr \in paired_devices'
                /\ paired_devices' \ paired_devices \subseteq {handles[r.h].addr}
                /\ callbacks' = <<"paired_successfully">>]_vars

\* The pair call returned after a disconnect had set client to None: the
\* device is bonded, paired is true, pairing_failed was reported and the
\* address is not in paired_devices.
C39_Witness ==
    /\ awaited = "ok"
    /\ callbacks = <<"pairing_failed">>
    /\ client = None
    /\ paired
    /\ \E a \in Addr : bond[a] = "bonded" /\ a \notin paired_devices

====
